---------------------------- MODULE Spec2Model ----------------------------
(***************************************************************************)
(* Model of the SCF liquid-wealth pipeline of                              *)
(* Code/Empirical/make_liquid_wealth.py:                                   *)
(*   merge_and_filter -> calculate_liquid_wealth -> calculate_statistics.  *)
(* Column values are exact rationals <<n, d>> (d > 0, lowest terms); the   *)
(* IEEE special values the float columns can take are <<0, 0>> (NaN),      *)
(* <<1, 0>> (+inf) and <<-1, 0>> (-inf).                                   *)
(***************************************************************************)
EXTENDS Integers, Naturals, Sequences, FiniteSets, TLC

VARIABLES
    pc,                  \* position of main(): start, loaded, merged, wealth,
                         \* done, failed
    disk,                \* the input files of Code/Empirical: present or not, rows
    written,             \* names of the files the run has written
    passed,              \* the table object handed to the stage that last
                         \* returned, as the caller holds it after the call
    raw,                 \* rscfp2004 rows as loaded (never mutated)
    ccbal_df,            \* ccbal_answer rows as loaded
    merged,              \* the frame inside merge_and_filter after line 68
    include_installment, \* the switch of calculate_liquid_wealth
    df,                  \* the panel main() holds
    collapsed,           \* the panel inside calculate_liquid_wealth after line 124
    trimmed,             \* yy1 of the rows dropped at line 131
    results,             \* the mapping calculate_statistics returns
    lorenz_all,          \* rows of Data/LorenzAll.csv (<<>> while not written)
    lorenz_ed,           \* rows of Data/LorenzEd.csv (<<>> while not written)
    wtMedLWoPI,          \* column wtMedLWoPI of the working frame, by tier
    quartileW,           \* columns quartileW / weightedLW_all of the working frame
    wealth_by_quartile,  \* weightedLW_all summed by quartileW (before rounding)
    err,                 \* exception that ended the run, or "none"
    message,             \* what the error printed by main() names
    exit_status,         \* <<>> while main() runs, then <<its return value>>
    edcl_column,         \* a column of education codes edcl
    myEd_main,           \* its myEd column by calculate_liquid_wealth
    myEd_compare,        \* its myEd column by compare_scf_datasets
    adj_pc,              \* adjust_inflation: "start", then "done"
    adj_input,           \* the .dta file adjust_inflation reads
    adj_output,          \* the .dta file it writes (no columns while not written)
    cmp_pc,              \* compare_scf_datasets.main(): start, git, latest,
                         \* done, failed
    cmp_git,             \* rows of GIT_FILE (LATEST_FILE is adj_output)
    cmp_ccbal,           \* rows of ccbal_answer.dta beside GIT_FILE
    results_git,         \* load_and_analyze of GIT_FILE
    results_latest,      \* load_and_analyze of LATEST_FILE
    max_dollar_diff,     \* print_comparison, after line 146
    max_nondollar_diff,  \* print_comparison, after line 169
    verdict,             \* the match verdict print_comparison prints
    cmp_exit,            \* <<>> while main() runs, then <<its return value>>
    ver_pc,              \* verify_adjustment: "start", then "done"
    ver_orig,            \* the file rscfp2004_2013USD.dta
    ver_pct,             \* pct_diff printed for each of test_vars
    st_pc,               \* stash-tables: next step of the minimal run
    tables,              \* the TABLE arguments
    fs,                  \* the project directory: content by file name
    fs_before,           \* the project directory before the backup step
    rep_pc,              \* position of reproduce_all_results
    dry_run,             \* ReproductionScript.dry_run
    stdin,               \* the answers input() has still to read
    scripts,             \* which reproduce/*.sh exist, their exit status
    comp_returncode,     \* <<>> until reproduce_computed.sh has run
    docs_returncode,     \* <<>> until reproduce_documents.sh has run
    rep_output,          \* what reproduce_all_results has printed
    rep_ret              \* <<>> while it runs, then <<its return value>>

pipelineVars ==
    <<pc, disk, written, passed, raw, ccbal_df, merged, include_installment, df, collapsed,
      trimmed, results, lorenz_all, lorenz_ed, wtMedLWoPI, quartileW,
      wealth_by_quartile, err, message, exit_status>>

tieringVars == <<edcl_column, myEd_main, myEd_compare>>

adjustVars == <<adj_pc, adj_input, adj_output>>

compareVars ==
    <<cmp_pc, cmp_git, cmp_ccbal, results_git, results_latest,
      max_dollar_diff, max_nondollar_diff, verdict, cmp_exit>>

verifyVars == <<ver_pc, ver_orig, ver_pct>>

stashVars == <<st_pc, tables, fs, fs_before>>

reproduceVars ==
    <<rep_pc, dry_run, stdin, scripts, comp_returncode, docs_returncode,
      rep_output, rep_ret>>

\* The state of the other command-line tools.
toolVars == <<compareVars, verifyVars, stashVars, reproduceVars>>

vars == <<pipelineVars, tieringVars, adjustVars, toolVars>>

---------------------------------------------------------------------------
(* Float columns, in exact arithmetic.                                     *)

Abs(n) == IF n < 0 THEN -n ELSE n

\* Common factors are cancelled before products are formed, so that the
\* intermediate integers stay small.
RECURSIVE GCD(_, _)
GCD(a, b) == IF b = 0 THEN a ELSE GCD(b, a % b)

NaN == <<0, 0>>

Inf == <<1, 0>>

Sign(n) == IF n > 0 THEN 1 ELSE IF n < 0 THEN -1 ELSE 0

\* n/d brought to lowest terms with a positive denominator; d = 0 gives
\* the float result of dividing by zero (nan, inf or -inf).
Frac(n, d) ==
    IF d = 0 THEN <<Sign(n), 0>>
    ELSE LET g == GCD(Abs(n), Abs(d))
             s == IF d < 0 THEN -1 ELSE 1
         IN  <<(s * n) \div g, (s * d) \div g>>

Q(n) == <<n, 1>>

IsNaN(a) == a[2] = 0 /\ a[1] = 0

IsFinite(a) == a[2] # 0

QAdd(a, b) ==
    IF IsNaN(a) \/ IsNaN(b) THEN NaN
    ELSE IF ~IsFinite(a) /\ ~IsFinite(b)
         THEN (IF a[1] = b[1] THEN a ELSE NaN)
    ELSE IF ~IsFinite(a) THEN a
    ELSE IF ~IsFinite(b) THEN b
    ELSE LET g == GCD(a[2], b[2])
         IN  Frac(a[1] * (b[2] \div g) + b[1] * (a[2] \div g),
                  (a[2] \div g) * b[2])

QNeg(a) == <<-a[1], a[2]>>

QSub(a, b) == QAdd(a, QNeg(b))

QMul(a, b) ==
    IF IsNaN(a) \/ IsNaN(b) THEN NaN
    ELSE IF ~IsFinite(a) \/ ~IsFinite(b)
         THEN <<Sign(a[1]) * Sign(b[1]), 0>>
    ELSE LET g1 == GCD(Abs(a[1]), b[2])
             g2 == GCD(Abs(b[1]), a[2])
         IN  Frac((a[1] \div g1) * (b[1] \div g2),
                  (a[2] \div g2) * (b[2] \div g1))

QDiv(a, b) ==
    IF IsNaN(a) \/ IsNaN(b) THEN NaN
    ELSE IF ~IsFinite(a)
         THEN (IF ~IsFinite(b) THEN NaN
               ELSE <<a[1] * (IF b[1] < 0 THEN -1 ELSE 1), 0>>)
    ELSE IF ~IsFinite(b) THEN Q(0)
    ELSE IF b[1] = 0 THEN <<Sign(a[1]), 0>>
    ELSE LET g1 == GCD(Abs(a[1]), Abs(b[1]))
             g2 == GCD(a[2], b[2])
         IN  Frac((a[1] \div g1) * (b[2] \div g2),
                  (a[2] \div g2) * (b[1] \div g1))

\* Float comparisons: every comparison with NaN is False.
QLt(a, b) ==
    IF IsNaN(a) \/ IsNaN(b) THEN FALSE
    ELSE IF ~IsFinite(a) THEN (a[1] < 0 /\ (IsFinite(b) \/ b[1] > 0))
    ELSE IF ~IsFinite(b) THEN b[1] > 0
    ELSE LET g == GCD(a[2], b[2])
         IN  a[1] * (b[2] \div g) < b[1] * (a[2] \div g)

QEq(a, b) == ~IsNaN(a) /\ ~IsNaN(b) /\ a = b

QLe(a, b) == QLt(a, b) \/ QEq(a, b)

QGe(a, b) == QLe(b, a)

\* Floor of n/d for d > 0 (\div of the Integers module already floors).
FloorDiv(n, d) == n \div d

Pow10(k) == IF k = 0 THEN 1 ELSE IF k = 1 THEN 10 ELSE 100

\* round(x, k) of numpy/pandas: to k decimals, ties to the even digit;
\* nan and inf are returned unchanged.
Round(a, k) ==
    IF ~IsFinite(a) THEN a
    ELSE LET num == a[1] * Pow10(k)
             fl  == FloorDiv(num, a[2])
             r2  == 2 * (num - fl * a[2])
             up  == r2 > a[2] \/ (r2 = a[2] /\ fl % 2 = 1)
         IN  Frac(IF up THEN fl + 1 ELSE fl, Pow10(k))

---------------------------------------------------------------------------
(* Series helpers (pandas column operations).                              *)

Range(s) == {s[i] : i \in DOMAIN s}

\* The sum of s[lo..hi] (by halves, so that long columns stay shallow).
RECURSIVE QSumRange(_, _, _)
QSumRange(s, lo, hi) ==
    IF lo > hi THEN Q(0)
    ELSE IF lo = hi THEN s[lo]
    ELSE LET mid == (lo + hi) \div 2
         IN  QAdd(QSumRange(s, lo, mid), QSumRange(s, mid + 1, hi))

\* Series.sum(): 0 on an empty series.
QSum(s) == QSumRange(s, 1, Len(s))

\* Series.cumsum() / np.cumsum.  (\o <<>> leaves the sequence unchanged;
\* it makes TLC hold it as a tuple instead of re-evaluating the function.)
CumSum(s) == [i \in 1..Len(s) |-> QSumRange(s, 1, i)] \o <<>>

\* Series.mean() of a non-empty series.
QMean(s) == QDiv(QSum(s), Q(Len(s)))

\* A derived column: f applied to every row.
Column(d, f(_)) == [i \in 1..Len(d) |-> f(d[i])] \o <<>>

\* df[mask]: the rows that satisfy Keep, in their order.
Filter(d, Keep(_)) == SelectSeq(d, Keep)

---------------------------------------------------------------------------
(* Sorting.                                                                *)

\* Order of a float sort key under sort_values: ascending, NaN last.
KeyLess(a, b) ==
    IF IsNaN(a) THEN FALSE ELSE IF IsNaN(b) THEN TRUE ELSE QLt(a, b)

\* The rows of d in ascending key order, rows with equal keys in their
\* order in d.
StableSort(d, Key(_)) ==
    LET key  == Column(d, Key)
        before(j, i) ==
            KeyLess(key[j], key[i]) \/ (~KeyLess(key[i], key[j]) /\ j < i)
        rank == [i \in 1..Len(d) |->
                   Cardinality({j \in 1..Len(d) : before(j, i)}) + 1] \o <<>>
    IN  [k \in 1..Len(d) |-> d[CHOOSE i \in 1..Len(d) : rank[i] = k]] \o <<>>

\* All arrangements of the rows d.
RECURSIVE Arrangements(_)
Arrangements(d) ==
    IF d = <<>> THEN {<<>>}
    ELSE UNION { { <<d[i]>> \o o :
                     o \in Arrangements(SubSeq(d, 1, i - 1) \o
                                        SubSeq(d, i + 1, Len(d))) } :
                 i \in 1..Len(d) }

\* The arrangements of b[lo..hi] that are ascending in the key, b being
\* sorted: every run of equal keys may come in any order.
RECURSIVE RunOrders(_, _, _, _)
RunOrders(b, key, lo, hi) ==
    IF lo > hi THEN {<<>>}
    ELSE LET cuts == { g \in (lo + 1)..hi : KeyLess(key[g - 1], key[g]) }
         IN  IF cuts = {} THEN Arrangements(SubSeq(b, lo, hi))
             ELSE LET mid == (lo + hi + 1) \div 2
                      g == CHOOSE c \in cuts :
                             \A e \in cuts : Abs(c - mid) <= Abs(e - mid)
                  IN  { x \o y : x \in RunOrders(b, key, lo, g - 1),
                                 y \in RunOrders(b, key, g, hi) }

\* sort_values on one column (numpy quicksort, not stable): rows with
\* equal keys may come out in any order, so the result is any one of the
\* arrangements of the rows that is ascending in the key.
SortOrders(d, Key(_)) ==
    LET b == StableSort(d, Key)
    IN  RunOrders(b, Column(b, Key), 1, Len(b))

\* Rows before row i in the order (liqWealth, yy1); rows equal in both keys
\* keep their relative order.
LorenzBefore(d, j, i) ==
    \/ QLt(d[j].liqWealth, d[i].liqWealth)
    \/ /\ d[j].liqWealth = d[i].liqWealth
       /\ \/ d[j].yy1 < d[i].yy1
          \/ d[j].yy1 = d[i].yy1 /\ j < i

\* The rows of d from the richest household to the poorest.
SortLorenzDescending(d) ==
    LET rank == [i \in 1..Len(d) |->
                   Cardinality({j \in 1..Len(d) : LorenzBefore(d, i, j)}) + 1]
                \o <<>>
    IN  [k \in 1..Len(d) |-> d[CHOOSE i \in 1..Len(d) : rank[i] = k]] \o <<>>

\* df.sort_values(['liqWealth', 'yy1'])
SortLorenz(d) ==
    LET rank == [i \in 1..Len(d) |->
                   Cardinality({j \in 1..Len(d) : LorenzBefore(d, j, i)}) + 1]
                \o <<>>
    IN  [k \in 1..Len(d) |-> d[CHOOSE i \in 1..Len(d) : rank[i] = k]] \o <<>>

---------------------------------------------------------------------------
(* merge_and_filter                                                        *)

\* The rows a left join on y1 makes of raw row r: one per matching row of
\* the auxiliary table, or one with x432 missing (NaN) when none matches.
MergeRow(r, aux) ==
    LET m == Filter(aux, LAMBDA a : a.y1 = r.y1)
    IN  IF m = <<>> THEN << [row |-> r, x432 |-> NaN] >>
        ELSE Column(m, LAMBDA a : [row |-> r, x432 |-> a.x432])

RECURSIVE MergeRange(_, _, _, _)
MergeRange(d, aux, lo, hi) ==
    IF lo > hi THEN <<>>
    ELSE IF lo = hi THEN MergeRow(d[lo], aux)
    ELSE LET mid == (lo + hi) \div 2
         IN  MergeRange(d, aux, lo, mid) \o MergeRange(d, aux, mid + 1, hi)

\* The merge as an inner join: raw rows without a match are dropped.
MergeInner(d, aux) ==
    LET matched == Filter(d, LAMBDA r : \E a \in Range(aux) : a.y1 = r.y1)
    IN  MergeRange(matched, aux, 1, Len(matched))

\* df.merge(ccbal_df, on='y1', how='left')
MergeLeft(d, aux) == MergeRange(d, aux, 1, Len(d))

\* df.loc[df['x432'] == 1, 'ccbal'] = 0, then the x432 column is dropped.
ForceCcbal(m) ==
    IF QEq(m.x432, Q(1)) THEN [m.row EXCEPT !.ccbal = Q(0)] ELSE m.row

\* df.groupby('yy1')[col].transform('mean'), for the row r of d.
GroupMean(d, r, Col(_)) ==
    QMean(Column(Filter(d, LAMBDA x : x.yy1 = r.yy1), Col))

AgeMin == 25

AgeMax == 62

AgeSelected(r) == QGe(r.age, Q(AgeMin)) /\ QLe(r.age, Q(AgeMax))

IncomeSelected(r) == QGe(r.norminc, Q(0))

\* Lines 66-68: the frame after the merge and the correction of ccbal.
MergedFrame(d, aux) == Column(MergeLeft(d, aux), ForceCcbal)

\* Line 71: age replaced by the household's mean age over the rows of m.
MeanAge(m) ==
    Column(m, LAMBDA r : [r EXCEPT !.age = GroupMean(m, r, LAMBDA x : x.age)])

\* Lines 74-75 on the frame with mean ages.
SampleSelection(aged) == Filter(Filter(aged, AgeSelected), IncomeSelected)

\* merge_and_filter with the mean age taken after the income filter.
merge_and_filter_late_age(d, aux) ==
    Filter(MeanAge(Filter(MergedFrame(d, aux), IncomeSelected)), AgeSelected)

merge_and_filter(d, aux) == SampleSelection(MeanAge(MergedFrame(d, aux)))

---------------------------------------------------------------------------
(* calculate_liquid_wealth                                                 *)

\* liq * 1.05
LiqMarkup == Frac(105, 100)

TempLiqWealthKaplan(r) ==
    QSub(QAdd(QAdd(QAdd(QAdd(QMul(r.liq, LiqMarkup), r.cds), r.nmmf),
                   r.stocks), r.bond), r.ccbal)

TempLiqWealthInst(r) ==
    QSub(TempLiqWealthKaplan(r), QSub(r.install, r.veh_inst))

Tiers == 1..3

\* 1 = no high school, 2 = high school / some college, 3 = college
\* MyEd with code 3 counted as college.
MyEdCollegeFrom3(edcl) ==
    IF QEq(edcl, Q(2)) THEN 2
    ELSE IF QEq(edcl, Q(3)) \/ QEq(edcl, Q(4)) THEN 3 ELSE 1

\* df['myEd'] = 1; isin([2, 3]) -> 2; == 4 -> 3.  A missing code is NaN,
\* which no comparison matches.
MyEd(edcl) ==
    IF QEq(edcl, Q(2)) \/ QEq(edcl, Q(3)) THEN 2
    ELSE IF QEq(edcl, Q(4)) THEN 3 ELSE 1

\* The same three statements in compare_scf_datasets.load_and_analyze.
MyEdCompare(edcl) ==
    IF QEq(edcl, Q(2)) \/ QEq(edcl, Q(3)) THEN 2
    ELSE IF QEq(edcl, Q(4)) THEN 3 ELSE 1

WeightMultiplier == 5

ImplicateModulus == 5

\* Lines 84-91: the two columns are set on the frame the caller passed,
\* before line 94 rebinds df to a new frame.
WithTempLiqWealth(d) ==
    Column(d, LAMBDA r :
        [f \in DOMAIN r \cup {"tempLiqWealthInst", "tempLiqWealthKaplan"} |->
            IF f = "tempLiqWealthInst" THEN TempLiqWealthInst(r)
            ELSE IF f = "tempLiqWealthKaplan" THEN TempLiqWealthKaplan(r)
            ELSE r[f]])

\* Household-level aggregates (lines 98-120) of row r of d: the means are
\* taken over the rows of r's household that are in d.
HouseholdAggregates(d, r) ==
    [yy1             |-> r.yy1,
     age             |-> r.age,
     myEd            |-> MyEd(r.edcl),
     liqWealthInst   |-> GroupMean(d, r, TempLiqWealthInst),
     liqWealthKaplan |-> GroupMean(d, r, TempLiqWealthKaplan),
     permInc         |-> GroupMean(d, r, LAMBDA x : x.norminc),
     weight          |-> QMul(GroupMean(d, r, LAMBDA x : x.wgt),
                              Q(WeightMultiplier))]

KeptImplicate(r) == r.y1 % ImplicateModulus = 1

\* Lines 111-124: keep only one observation per household (where
\* y1 mod 5 == 1).  The aggregates of a row do not depend on the rows the
\* filter removes afterwards, so they are taken for the kept rows only.
Collapse(d) ==
    Column(Filter(d, KeptImplicate), LAMBDA r : HouseholdAggregates(d, r))

\* normweight = weight / weight.sum()
WithNormWeight(d) ==
    LET total_weight == QSum(Column(d, LAMBDA r : r.weight))
    IN  Column(d, LAMBDA r :
           [row |-> r, normweight |-> QDiv(r.weight, total_weight)])

TrimCutoff == Frac(5, 100)

\* TrimKeep with a strict comparison.
TrimKeepAbove(x) == QLt(TrimCutoff, x.sumW)

\* TrimKeep with twice the cutoff.
TrimKeepTenth(x) == QGe(x.sumW, QAdd(TrimCutoff, TrimCutoff))

TrimKeep(x) == QGe(x.sumW, TrimCutoff)

\* Drop lowest 5% of permanent income: s is the panel with normweight,
\* already sorted by permInc.
TrimLowIncome(s) ==
    LET sumW == CumSum(Column(s, LAMBDA x : x.normweight))
        tagged == [i \in 1..Len(s) |-> [row |-> s[i].row, sumW |-> sumW[i]]]
                  \o <<>>
    IN  Column(Filter(tagged, TrimKeep), LAMBDA x : x.row)

\* The trimming applied to the households with non-negative wealth only.
TrimResultsOfSolvent(d) ==
    { TrimLowIncome(s) :
        s \in SortOrders(WithNormWeight(
                 Filter(d, LAMBDA r : QGe(r.liqWealthKaplan, Q(0)))),
               LAMBDA x : x.row.permInc) }

\* The possible results of lines 126-132: one per outcome of the sort.
TrimResults(d) ==
    { TrimLowIncome(s) :
        s \in SortOrders(WithNormWeight(d), LAMBDA x : x.row.permInc) }

\* ChooseMeasure with the two measures exchanged.
ChooseMeasureSwapped(r, inst) ==
    IF inst THEN r.liqWealthKaplan ELSE r.liqWealthInst

ChooseMeasure(r, inst) == IF inst THEN r.liqWealthInst ELSE r.liqWealthKaplan

NonNegativeWealth(r) == QGe(r.liqWealth, Q(0))

\* EdFrac without the grouping by tier.
EdFracAll(w, ed) == QSum(Column(w, LAMBDA x : x.normweight))

\* df.groupby('myEd')['normweight'].transform('sum'), for tier ed.
EdFrac(w, ed) ==
    QSum(Column(Filter(w, LAMBDA x : x.row.myEd = ed),
                LAMBDA x : x.normweight))

\* Renormalize with the total weight taken before the negative-wealth
\* filter.
RenormalizeStale(kept, before) ==
    LET total_weight == QSum(Column(before, LAMBDA r : r.weight))
    IN  Column(kept, LAMBDA r :
           [row |-> r, normweight |-> QDiv(r.weight, total_weight)])

\* Lines 143-145: normweight recalculated after dropping observations;
\* kept is the panel after the negative-wealth filter, before is the panel
\* that entered the filter.
Renormalize(kept, before) == WithNormWeight(kept)

\* Lines 134-149, on the trimmed panel t.
FinishWealth(t, inst) ==
    LET withLW == Column(t, LAMBDA r :
                     [yy1 |-> r.yy1, age |-> r.age, myEd |-> r.myEd,
                      liqWealthInst |-> r.liqWealthInst,
                      liqWealthKaplan |-> r.liqWealthKaplan,
                      permInc |-> r.permInc, weight |-> r.weight,
                      liqWealth |-> ChooseMeasure(r, inst)])
        kept == Filter(withLW, NonNegativeWealth)
        w    == Renormalize(kept, withLW)
        edfrac == [ed \in Tiers |-> EdFrac(w, ed)] \o <<>>
    IN  Column(w, LAMBDA x :
           [yy1 |-> x.row.yy1, age |-> x.row.age, myEd |-> x.row.myEd,
            liqWealthInst |-> x.row.liqWealthInst,
            liqWealthKaplan |-> x.row.liqWealthKaplan,
            permInc |-> x.row.permInc, weight |-> x.row.weight,
            liqWealth |-> x.row.liqWealth,
            normweight |-> x.normweight,
            edfrac |-> edfrac[x.row.myEd],
            edWeight |-> QDiv(x.normweight, edfrac[x.row.myEd])])

---------------------------------------------------------------------------
(* calculate_statistics                                                    *)

Thresholds == {20, 40, 60, 80}

Hundred == Q(100)

InitialAge == 25

Tier(d, ed) == Filter(d, LAMBDA r : r.myEd = ed)

\* Tiers for which lines 201-214 compute the initial-income moments.
TiersWithInitialAge(d) ==
    { ed \in Tiers : \E i \in DOMAIN d :
                       d[i].myEd = ed /\ QEq(d[i].age, Q(InitialAge)) }

\* (x['normweight'] * x['liqWealth']).sum()
WeightedWealth(d) ==
    QSum(Column(d, LAMBDA r : QMul(r.normweight, r.liqWealth)))

IndLWoPI(r) == QDiv(r.liqWealth, r.permInc)

\* np.searchsorted(cumsum, v, side='right'): the first index whose entry is
\* > v.
SearchSortedRight(c, v) ==
    IF \E i \in DOMAIN c : QLt(v, c[i])
    THEN CHOOSE i \in DOMAIN c :
           QLt(v, c[i]) /\ \A j \in 1..(i - 1) : ~QLt(v, c[j])
    ELSE Len(c) + 1

\* np.searchsorted(cumsum, v): the first index whose entry is >= v, or
\* Len + 1 when there is none.
SearchSorted(c, v) ==
    IF \E i \in DOMAIN c : QGe(c[i], v)
    THEN CHOOSE i \in DOMAIN c :
           QGe(c[i], v) /\ \A j \in 1..(i - 1) : ~QGe(c[j], v)
    ELSE Len(c) + 1

\* The liquid wealth of the household at the median index.
WeightedMedianWealth(s) ==
    LET values == Column(s, LAMBDA r : r.liqWealth)
        cumsum == CumSum(Column(s, LAMBDA r : r.edWeight))
        median_idx == SearchSorted(cumsum, QDiv(cumsum[Len(cumsum)], Q(2)))
    IN  IF median_idx <= Len(values) THEN values[median_idx]
        ELSE values[Len(values)]

\* Lines 246-252 on the tier's rows s, sorted by indLWoPI (s is not empty).
WeightedMedian(s) ==
    LET values == Column(s, IndLWoPI)
        cumsum == CumSum(Column(s, LAMBDA r : r.edWeight))
        median_idx == SearchSorted(cumsum, QDiv(cumsum[Len(cumsum)], Q(2)))
    IN  IF median_idx <= Len(values) THEN values[median_idx]
        ELSE values[Len(values)]

\* The values the tier's median can take: one per outcome of the sort.
WeightedMedians(d, ed) ==
    { WeightedMedian(s) : s \in SortOrders(Tier(d, ed), IndLWoPI) }

\* Lines 163 and 274-277: s is the panel sorted by (liqWealth, yy1).
LorenzAll(s) ==
    LET sumNormW == CumSum(Column(s, LAMBDA r : r.normweight))
        tot_weighted_lw == WeightedWealth(s)
        sumLWall ==
            CumSum(Column(s, LAMBDA r :
                     QDiv(QMul(r.normweight, r.liqWealth), tot_weighted_lw)))
    IN  [i \in 1..Len(s) |->
           [yy1 |-> s[i].yy1, myEd |-> s[i].myEd,
            sumNormW |-> QMul(sumNormW[i], Hundred),
            sumLWall |-> QMul(sumLWall[i], Hundred)]] \o <<>>

\* Series.max(): NaN entries are skipped; NaN when nothing is left.
QMax(S) ==
    LET T == { x \in S : ~IsNaN(x) }
    IN  IF T = {} THEN NaN
        ELSE CHOOSE x \in T : \A y \in T : QLe(y, x)

\* df[df['sumNormW'] < pct]['sumLWall'].max()
BucketReadout(lc, pct) ==
    QMax({ lc[i].sumLWall : i \in { i \in DOMAIN lc : QLt(lc[i].sumNormW, Q(pct)) } })

LorenzPoints(lc) == [pct \in Thresholds |-> Round(BucketReadout(lc, pct), 2)]

\* LorenzTier with the population-wide normweight in place of edWeight.
LorenzTierNormweight(t) ==
    LET weightedLW == Column(t, LAMBDA r : QMul(r.normweight, r.liqWealth))
        tot   == QSum(weightedLW)
        sumLW == CumSum(Column(weightedLW, LAMBDA x : QDiv(x, tot)))
        sumEdW == CumSum(Column(t, LAMBDA r : r.normweight))
    IN  [i \in 1..Len(t) |->
           [yy1 |-> t[i].yy1, myEd |-> t[i].myEd,
            sumEdW |-> QMul(sumEdW[i], Hundred),
            sumLW  |-> QMul(sumLW[i], Hundred)]] \o <<>>

\* Lines 302-310 for one tier: t is the tier's rows in (liqWealth, yy1) order.
LorenzTier(t) ==
    LET weightedLW == Column(t, LAMBDA r : QMul(r.edWeight, r.liqWealth))
        tot   == QSum(weightedLW)
        sumLW == CumSum(Column(weightedLW, LAMBDA x : QDiv(x, tot)))
        sumEdW == CumSum(Column(t, LAMBDA r : r.edWeight))
    IN  [i \in 1..Len(t) |->
           [yy1 |-> t[i].yy1, myEd |-> t[i].myEd,
            sumEdW |-> QMul(sumEdW[i], Hundred),
            sumLW  |-> QMul(sumLW[i], Hundred)]] \o <<>>

\* Rows of LorenzEd.csv: sorted by (myEd, liqWealth, yy1).
LorenzEd(s) ==
    LorenzTier(Tier(s, 1)) \o LorenzTier(Tier(s, 2)) \o LorenzTier(Tier(s, 3))

---------------------------------------------------------------------------
(* Wealth by wealth quartile: pd.qcut(df['weightedLW_all'], q=4, ...)       *)

NQuantiles == 4

Quartiles == 1..NQuantiles

\* The values of v in ascending order.
SortValues(v) == StableSort(v, LAMBDA x : x)

\* Series.quantile(k / 4) by linear interpolation; sv is sorted, not empty.
Quantile(sv, k) ==
    LET h4 == (Len(sv) - 1) * k
        lo == h4 \div NQuantiles
        fr == h4 % NQuantiles
    IN  IF fr = 0 THEN sv[lo + 1]
        ELSE QAdd(sv[lo + 1],
                  QMul(Frac(fr, NQuantiles), QSub(sv[lo + 2], sv[lo + 1])))

\* The five bin edges qcut computes.
QcutBins(v) ==
    LET sv == SortValues(v)
    IN  [k \in 1..(NQuantiles + 1) |-> Quantile(sv, k - 1)] \o <<>>

\* duplicates='raise': "Bin edges must be unique".
QcutRaises(v) == Cardinality(Range(QcutBins(v))) < NQuantiles + 1

\* The label of x: bins are right-closed and the first includes its left
\* edge (bins.searchsorted(x, side='left'), include_lowest).
QcutLabel(bins, x) ==
    IF x = bins[1] THEN 1
    ELSE (CHOOSE i \in 2..Len(bins) :
            QGe(bins[i], x) /\ \A j \in 1..(i - 1) : ~QGe(bins[j], x)) - 1

\* The working frame's columns after line 334; s is the sorted panel.
QuartileFrame(s) ==
    LET v    == Column(s, LAMBDA r : QMul(r.normweight, r.liqWealth))
        bins == QcutBins(v)
    IN  [i \in 1..Len(s) |->
           [yy1 |-> s[i].yy1, liqWealth |-> s[i].liqWealth,
            normweight |-> s[i].normweight, weightedLW_all |-> v[i],
            quartileW |-> QcutLabel(bins, v[i])]] \o <<>>

\* df.groupby('quartileW')['weightedLW_all'].sum(): every label has an
\* entry, 0 for a label no row carries.
WealthByQuartile(qf) ==
    [q \in Quartiles |->
       QSum(Column(Filter(qf, LAMBDA r : r.quartileW = q),
                   LAMBDA r : r.weightedLW_all))] \o <<>>

PctByQuartile(wbq, tot) ==
    [q \in Quartiles |-> Round(QMul(QDiv(wbq[q], tot), Hundred), 2)] \o <<>>

\* Lines 178-189: population and wealth share by tier, in percent.
EducationPopulationPct(d) ==
    [ed \in Tiers |->
       Round(QMul(Tier(d, ed)[1].edfrac, Hundred), 1)] \o <<>>

EducationWealthPct(d) ==
    [ed \in Tiers |->
       Round(QMul(QDiv(WeightedWealth(Tier(d, ed)), WeightedWealth(d)), Hundred), 1)]
    \o <<>>

\* The mapping calculate_statistics returns, given the medians med.
Results(s, med) ==
    LET lc  == LorenzAll(s)
        qf  == QuartileFrame(s)
    IN  [education_population_pct |-> EducationPopulationPct(s),
         education_wealth_pct     |-> EducationWealthPct(s),
         initial_income_tiers     |-> TiersWithInitialAge(s),
         median_lw_pi_annual_pct  |->
             [ed \in Tiers |-> Round(QMul(med[ed], Hundred), 2)] \o <<>>,
         median_lw_pi_quarterly_pct |->
             [ed \in Tiers |-> QMul(Round(QMul(med[ed], Hundred), 2), Q(4))]
             \o <<>>,
         lorenz_all               |-> LorenzPoints(lc),
         wealth_by_quartile_pct   |->
             PctByQuartile(WealthByQuartile(qf), WeightedWealth(s))]

---------------------------------------------------------------------------
(* Inputs: the survey extracts main() loads.                               *)

Implicates == 1..5

Same(x) == [k \in Implicates |-> x]

\* A roster of households of the survey design (five implicates each,
\* y1 = 10 * yy1 + implicate).  wgt is in tenths; x432 = 0 stands for "no
\* row in ccbal_answer".
Roster ==
    << \* 1: no high school, aged 25
       [edcl |-> 1, age |-> Same(25), wgt |-> Same(20), norminc |-> Same(40),
        liq |-> 20, cds |-> 19, nmmf |-> 0, stocks |-> 0, bond |-> 0,
        ccbal |-> 0, install |-> 0, veh_inst |-> 0, x432 |-> Same(0)],
       \* 2: high school, reported "no balance" on every implicate
       [edcl |-> 2, age |-> <<23, 24, 25, 26, 27>>, wgt |-> Same(20),
        norminc |-> Same(40),
        liq |-> 20, cds |-> 9, nmmf |-> 0, stocks |-> 0, bond |-> 0,
        ccbal |-> 100, install |-> 0, veh_inst |-> 0, x432 |-> Same(1)],
       \* 3: college, with installment debt
       [edcl |-> 4, age |-> Same(30), wgt |-> Same(30), norminc |-> Same(80),
        liq |-> 20, cds |-> 0, nmmf |-> 0, stocks |-> 19, bond |-> 0,
        ccbal |-> 0, install |-> 30, veh_inst |-> 10, x432 |-> Same(0)],
       \* 4: some college; implicate 3 has negative normal income
       [edcl |-> 3, age |-> <<24, 25, 26, 25, 25>>,
        wgt |-> <<10, 20, 30, 20, 20>>,
        norminc |-> <<20, 20, -4, 20, 20>>,
        liq |-> 20, cds |-> 0, nmmf |-> 0, stocks |-> 0, bond |-> 19,
        ccbal |-> 0, install |-> 0, veh_inst |-> 0, x432 |-> Same(5)],
       \* 5: high school; implicate 1 has negative normal income
       [edcl |-> 2, age |-> Same(50), wgt |-> Same(20),
        norminc |-> <<-4, 20, 20, 20, 20>>,
        liq |-> 20, cds |-> 0, nmmf |-> 0, stocks |-> 0, bond |-> 0,
        ccbal |-> 0, install |-> 0, veh_inst |-> 0, x432 |-> Same(0)],
       \* 6: small weight, lowest income
       [edcl |-> 2, age |-> Same(25), wgt |-> Same(1), norminc |-> Same(4),
        liq |-> 0, cds |-> 0, nmmf |-> 8, stocks |-> 0, bond |-> 0,
        ccbal |-> 0, install |-> 0, veh_inst |-> 0, x432 |-> Same(0)],
       \* 7: no high school, no income and no wealth
       [edcl |-> 1, age |-> Same(45), wgt |-> Same(20), norminc |-> Same(0),
        liq |-> 0, cds |-> 0, nmmf |-> 0, stocks |-> 0, bond |-> 0,
        ccbal |-> 0, install |-> 0, veh_inst |-> 0, x432 |-> Same(0)],
       \* 8: college, revolving balance above liquid assets
       [edcl |-> 4, age |-> Same(33), wgt |-> Same(20), norminc |-> Same(60),
        liq |-> 20, cds |-> 0, nmmf |-> 0, stocks |-> 0, bond |-> 0,
        ccbal |-> 100, install |-> 0, veh_inst |-> 0, x432 |-> Same(5)],
       \* 9: college, higher wealth and lower weight than household 3
       [edcl |-> 4, age |-> Same(28), wgt |-> Same(20), norminc |-> Same(100),
        liq |-> 40, cds |-> 3, nmmf |-> 0, stocks |-> 0, bond |-> 0,
        ccbal |-> 0, install |-> 10, veh_inst |-> 0, x432 |-> Same(0)] >>

\* Four households of one tier with equal weights 1 and liquid wealth
\* 0, 10, 20, 70.
ScenarioRoster ==
    [h \in 1..4 |->
       [edcl |-> 2, age |-> Same(25), wgt |-> Same(2), norminc |-> Same(40),
        liq |-> 0, cds |-> <<0, 10, 20, 70>>[h], nmmf |-> 0, stocks |-> 0,
        bond |-> 0, ccbal |-> 0, install |-> 0, veh_inst |-> 0,
        x432 |-> Same(0)]]

RawRow(h, k, p) ==
    [yy1 |-> h, y1 |-> 10 * h + k, wgt |-> Frac(p.wgt[k], 10),
     age |-> Q(p.age[k]), edcl |-> Q(p.edcl), norminc |-> Q(p.norminc[k]),
     liq |-> Q(p.liq), cds |-> Q(p.cds), nmmf |-> Q(p.nmmf),
     stocks |-> Q(p.stocks), bond |-> Q(p.bond), ccbal |-> Q(p.ccbal),
     install |-> Q(p.install), veh_inst |-> Q(p.veh_inst)]

\* The members of S in ascending order.
Ascending(S) ==
    [k \in 1..Cardinality(S) |->
       CHOOSE x \in S : Cardinality({y \in S : y < x}) = k - 1] \o <<>>

\* The table holding Rows(h) for the households hs[lo..hi], in that order.
RECURSIVE TableOf(_, _, _, _)
TableOf(Rows(_), hs, lo, hi) ==
    IF lo > hi THEN <<>>
    ELSE IF lo = hi THEN Rows(hs[lo])
    ELSE LET mid == (lo + hi) \div 2
         IN  TableOf(Rows, hs, lo, mid) \o TableOf(Rows, hs, mid + 1, hi)

\* rscfp2004 for the households S of roster R.
RawRows(R, S) ==
    TableOf(LAMBDA h : [k \in Implicates |-> RawRow(h, k, R[h])] \o <<>>,
            Ascending(S), 1, Cardinality(S))

\* ccbal_answer for the households S of roster R.
AuxRows(R, S) ==
    TableOf(LAMBDA h :
              Filter([k \in Implicates |->
                        [y1 |-> 10 * h + k, x432 |-> Q(R[h].x432[k])]] \o <<>>,
                     LAMBDA a : a.x432 # Q(0)),
            Ascending(S), 1, Cardinality(S))

\* p04i6 for the households S of roster R: the full public data set, one
\* row per implicate, with the columns the script reads (Y1, X432).
P04i6Rows(R, S) ==
    TableOf(LAMBDA h :
              [k \in Implicates |->
                 [Y1 |-> 10 * h + k, X432 |-> Q(R[h].x432[k])]] \o <<>>,
            Ascending(S), 1, Cardinality(S))

\* A file of the data directory: absent, or present with its rows.
File(present, rows) ==
    [present |-> present, rows |-> IF present THEN rows ELSE <<>>]

AllPresent == [rscfp2004 |-> TRUE, ccbal_answer |-> TRUE, p04i6 |-> TRUE]

MaxHH == 5

\* main() is entered: nothing is loaded; the data directory holds the
\* files that has says it holds, for the households S of roster R.
PipelineStart(R, S, inst, has) ==
    /\ pc = "start"
    /\ disk = [rscfp2004    |-> File(has.rscfp2004, RawRows(R, S)),
               ccbal_answer |-> File(has.ccbal_answer, AuxRows(R, S)),
               p04i6        |-> File(has.p04i6, P04i6Rows(R, S))]
    /\ written = {}
    /\ passed = <<>>
    /\ raw = <<>>
    /\ ccbal_df = <<>>
    /\ merged = <<>>
    /\ include_installment = inst
    /\ df = <<>>
    /\ message = {}
    /\ exit_status = <<>>
    /\ collapsed = <<>>
    /\ trimmed = {}
    /\ results = <<>>
    /\ lorenz_all = <<>>
    /\ lorenz_ed = <<>>
    /\ wtMedLWoPI = <<>>
    /\ quartileW = <<>>
    /\ wealth_by_quartile = <<>>
    /\ err = "none"

\* The education tiering is not under study: no column.
TieringIdle ==
    /\ edcl_column = <<>>
    /\ myEd_main = <<>>
    /\ myEd_compare = <<>>

NoFile == [columns |-> {}, rows |-> <<>>]

\* adjust_scf_inflation.py is not run.
AdjustIdle ==
    /\ adj_pc = "idle"
    /\ adj_input = NoFile
    /\ adj_output = NoFile

\* compare_scf_datasets.py is not run.
CompareIdle ==
    /\ cmp_pc = "idle"
    /\ cmp_git = <<>>
    /\ cmp_ccbal = <<>>
    /\ results_git = <<>>
    /\ results_latest = <<>>
    /\ max_dollar_diff = <<>>
    /\ max_nondollar_diff = <<>>
    /\ verdict = "none"
    /\ cmp_exit = <<>>

\* verify_adjustment is not called.
VerifyIdle ==
    /\ ver_pc = "idle"
    /\ ver_orig = NoFile
    /\ ver_pct = <<>>

\* stash-tables-during-comp-min-run.py is not run.
StashIdle ==
    /\ st_pc = "idle"
    /\ tables = <<>>
    /\ fs = <<>>
    /\ fs_before = <<>>

\* reproduce.py is not run.
ReproduceIdle ==
    /\ rep_pc = "idle"
    /\ dry_run = FALSE
    /\ stdin = <<>>
    /\ scripts = <<>>
    /\ comp_returncode = <<>>
    /\ docs_returncode = <<>>
    /\ rep_output = {}
    /\ rep_ret = <<>>

ToolsIdle == CompareIdle /\ VerifyIdle /\ StashIdle /\ ReproduceIdle

StartWith(R, S, inst, has) ==
    PipelineStart(R, S, inst, has) /\ TieringIdle /\ AdjustIdle /\ ToolsIdle

Start(R, S, inst) == StartWith(R, S, inst, AllPresent)

InitRoster ==
    \E S \in SUBSET (1..Len(Roster)), inst \in BOOLEAN :
        /\ Cardinality(S) <= MaxHH
        /\ Start(Roster, S, inst)

InitScenario == \E inst \in BOOLEAN : Start(ScenarioRoster, 1..4, inst)

\* Households at the borders of the stages: two with the same permanent
\* income at the lower tail, two whose implicates straddle an age limit,
\* one whose implicates answer x432 differently.
BorderRoster ==
    << \* 1: small weight, lowest income
       [edcl |-> 2, age |-> Same(25), wgt |-> Same(1), norminc |-> Same(4),
        liq |-> 0, cds |-> 0, nmmf |-> 8, stocks |-> 0, bond |-> 0,
        ccbal |-> 0, install |-> 0, veh_inst |-> 0, x432 |-> Same(0)],
       \* 2: the same income as household 1, ordinary weight
       [edcl |-> 1, age |-> Same(25), wgt |-> Same(20), norminc |-> Same(4),
        liq |-> 20, cds |-> 0, nmmf |-> 0, stocks |-> 0, bond |-> 0,
        ccbal |-> 0, install |-> 0, veh_inst |-> 0, x432 |-> Same(5)],
       \* 3: mean age 62.4
       [edcl |-> 4, age |-> <<61, 62, 63, 64, 62>>, wgt |-> Same(20),
        norminc |-> Same(50),
        liq |-> 20, cds |-> 0, nmmf |-> 0, stocks |-> 0, bond |-> 0,
        ccbal |-> 0, install |-> 0, veh_inst |-> 0, x432 |-> Same(0)],
       \* 4: mean age 24.8
       [edcl |-> 4, age |-> <<24, 24, 25, 25, 26>>, wgt |-> Same(20),
        norminc |-> Same(50),
        liq |-> 20, cds |-> 0, nmmf |-> 0, stocks |-> 0, bond |-> 0,
        ccbal |-> 0, install |-> 0, veh_inst |-> 0, x432 |-> Same(1)],
       \* 5: reported balance 500, "no balance" on implicates 1, 4 and 5
       [edcl |-> 4, age |-> Same(40), wgt |-> Same(20), norminc |-> Same(50),
        liq |-> 400, cds |-> 0, nmmf |-> 0, stocks |-> 0, bond |-> 0,
        ccbal |-> 500, install |-> 0, veh_inst |-> 0,
        x432 |-> <<1, 5, 0, 1, 1>>] >>

\* Any of the three input files may be missing.
InitBorder ==
    \E S \in SUBSET (1..Len(BorderRoster)), inst \in BOOLEAN,
       has \in [{"rscfp2004", "ccbal_answer", "p04i6"} -> BOOLEAN] :
        StartWith(BorderRoster, S, inst, has)

\* Households with equal wealth-to-income ratios inside one tier: 2 and 3
\* have the ratio 1 and different weights, and either can be the one at
\* which the cumulative weight of tier 2 reaches one half.
TieRoster ==
    << [edcl |-> 1, age |-> Same(25), wgt |-> Same(20), norminc |-> Same(10),
        liq |-> 0, cds |-> 10, nmmf |-> 0, stocks |-> 0, bond |-> 0,
        ccbal |-> 0, install |-> 0, veh_inst |-> 0, x432 |-> Same(0)],
       [edcl |-> 2, age |-> Same(25), wgt |-> Same(20), norminc |-> Same(20),
        liq |-> 0, cds |-> 20, nmmf |-> 0, stocks |-> 0, bond |-> 0,
        ccbal |-> 0, install |-> 0, veh_inst |-> 0, x432 |-> Same(0)],
       [edcl |-> 2, age |-> Same(25), wgt |-> Same(25), norminc |-> Same(40),
        liq |-> 0, cds |-> 40, nmmf |-> 0, stocks |-> 0, bond |-> 0,
        ccbal |-> 0, install |-> 0, veh_inst |-> 0, x432 |-> Same(0)],
       [edcl |-> 3, age |-> Same(25), wgt |-> Same(10), norminc |-> Same(30),
        liq |-> 0, cds |-> 90, nmmf |-> 0, stocks |-> 0, bond |-> 0,
        ccbal |-> 0, install |-> 0, veh_inst |-> 0, x432 |-> Same(0)],
       [edcl |-> 4, age |-> Same(30), wgt |-> Same(20), norminc |-> Same(50),
        liq |-> 0, cds |-> 25, nmmf |-> 0, stocks |-> 0, bond |-> 0,
        ccbal |-> 0, install |-> 0, veh_inst |-> 0, x432 |-> Same(0)] >>

InitTies ==
    \E S \in SUBSET (1..Len(TieRoster)), inst \in BOOLEAN :
        Start(TieRoster, S, inst)

Init == InitRoster \/ InitScenario \/ InitBorder \/ InitTies

\* Equally weighted households with pairwise distinct normal income: n of
\* them, household h with income (a * h mod n) + 1 (a prime to n), all of
\* one tier, aged 25, with liquid wealth h.
UniformRoster(n, a, w) ==
    [h \in 1..n |->
       [edcl |-> 2, age |-> Same(25), wgt |-> Same(w),
        norminc |-> Same(((a * h) % n) + 1),
        liq |-> 0, cds |-> h, nmmf |-> 0, stocks |-> 0, bond |-> 0,
        ccbal |-> 0, install |-> 0, veh_inst |-> 0, x432 |-> Same(0)]]

\* The households come in blocks of 20 (5% of a block is one household).
\* 1 / 0.05: the number of equally weighted households per removed one.
Block == 20

MaxBlocks == 5

MaxUniformWgt == 2

Strides == {1, 7, 11, 13}

InitUniform ==
    \E b \in 1..MaxBlocks, a \in Strides, w \in 1..MaxUniformWgt :
        Start(UniformRoster(Block * b, a, w), 1..(Block * b), FALSE)


---------------------------------------------------------------------------
(* load_data                                                               *)

DownloadSource == "https://www.federalreserve.gov/econres/scf_2004.htm"

\* raise FileNotFoundError(f"Required file not found: {file}\n
\* Please download from: ...")
MissingInput(file, d) ==
    [raised |-> TRUE, names |-> {file, DownloadSource},
     df |-> <<>>, ccbal_df |-> <<>>, disk |-> d, wrote |-> {}]

Loaded(rows, aux, d, wrote) ==
    [raised |-> FALSE, names |-> {}, df |-> rows, ccbal_df |-> aux,
     disk |-> d, wrote |-> wrote]

\* ccbal_df.columns = ['y1', 'x432']
RenameColumns(rows) ==
    Column(rows, LAMBDA r : [y1 |-> r.Y1, x432 |-> r.X432])

\* A loader that goes on without auxiliary answers when neither auxiliary
\* file exists.
load_data_without_answers(d) ==
    IF ~d.rscfp2004.present THEN MissingInput("rscfp2004.dta", d)
    ELSE IF ~d.ccbal_answer.present /\ d.p04i6.present
         THEN LET aux == RenameColumns(d.p04i6.rows)
              IN  Loaded(d.rscfp2004.rows, aux,
                         [d EXCEPT !.ccbal_answer = File(TRUE, aux)],
                         {"ccbal_answer.dta"})
         ELSE Loaded(d.rscfp2004.rows, d.ccbal_answer.rows, d, {})

\* Lines 22-58 on the data directory d: what is raised or returned, and the
\* data directory afterwards.
load_data(d) ==
    IF ~d.rscfp2004.present THEN MissingInput("rscfp2004.dta", d)
    ELSE IF ~d.ccbal_answer.present
         THEN IF ~d.p04i6.present THEN MissingInput("p04i6.dta", d)
              ELSE LET aux == RenameColumns(d.p04i6.rows)
                   IN  Loaded(d.rscfp2004.rows, aux,
                              [d EXCEPT !.ccbal_answer = File(TRUE, aux)],
                              {"ccbal_answer.dta"})
         ELSE Loaded(d.rscfp2004.rows, d.ccbal_answer.rows, d, {})

---------------------------------------------------------------------------
(* main(): the four stages, one action each.                               *)

\* An exception reaches main(), which prints it and returns 1.
Fail(e, names) ==
    /\ pc' = "failed"
    /\ err' = e
    /\ message' = names
    /\ exit_status' = <<1>>

LoadData ==
    /\ pc = "start"
    /\ LET r == load_data(disk)
       IN  /\ disk' = r.disk
           /\ written' = written \cup r.wrote
           /\ IF r.raised
              THEN /\ Fail("FileNotFoundError", r.names)
                   /\ UNCHANGED <<raw, ccbal_df, df>>
              ELSE /\ raw' = r.df
                   /\ df' = r.df
                   /\ ccbal_df' = r.ccbal_df
                   /\ pc' = "loaded"
                   /\ UNCHANGED <<err, message, exit_status>>
    /\ UNCHANGED <<merged, include_installment, collapsed, trimmed, results,
                   lorenz_all, lorenz_ed, wtMedLWoPI, quartileW,
                   wealth_by_quartile, passed>>
    /\ UNCHANGED <<tieringVars, adjustVars, toolVars>>

MergeAndFilter ==
    /\ pc = "loaded"
    /\ merged' = MergedFrame(df, ccbal_df)
    /\ df' = merge_and_filter(df, ccbal_df)
    \* line 66 rebinds df to the merged frame: the caller's table is not
    \* written
    /\ passed' = df
    /\ pc' = "merged"
    /\ UNCHANGED <<disk, written, raw, ccbal_df, include_installment, collapsed,
                   trimmed, results, lorenz_all, lorenz_ed, wtMedLWoPI,
                   quartileW, wealth_by_quartile, err, message, exit_status>>
    /\ UNCHANGED <<tieringVars, adjustVars, toolVars>>

CalculateLiquidWealth ==
    /\ pc = "merged"
    /\ LET c == Collapse(df)
       IN  \E t \in TrimResults(c) :
              /\ collapsed' = c
              /\ trimmed' = { r.yy1 : r \in Range(c) \ Range(t) }
              /\ df' = FinishWealth(t, include_installment)
    /\ passed' = WithTempLiqWealth(df)
    /\ pc' = "wealth"
    /\ UNCHANGED <<disk, written, raw, ccbal_df, merged, include_installment, results,
                   lorenz_all, lorenz_ed, wtMedLWoPI, quartileW,
                   wealth_by_quartile, err, message, exit_status>>
    /\ UNCHANGED <<tieringVars, adjustVars, toolVars>>

CalculateStatistics ==
    /\ pc = "wealth"
    /\ LET s == SortLorenz(df)
       IN  IF TiersWithInitialAge(s) = {}
           THEN \* line 216: no mean_initial_income column exists
                /\ Fail("KeyError", {})
                /\ UNCHANGED <<results, lorenz_all, lorenz_ed, wtMedLWoPI,
                               quartileW, wealth_by_quartile, written>>
           ELSE IF \E ed \in Tiers : Tier(s, ed) = <<>>
           THEN \* line 251: cumsum[-1] of an empty tier
                /\ Fail("IndexError", {})
                /\ UNCHANGED <<results, lorenz_all, lorenz_ed, wtMedLWoPI,
                               quartileW, wealth_by_quartile, written>>
           ELSE \E m1 \in WeightedMedians(s, 1), m2 \in WeightedMedians(s, 2),
                   m3 \in WeightedMedians(s, 3) :
                /\ wtMedLWoPI' = <<m1, m2, m3>>
                /\ lorenz_all' = LorenzAll(s)
                /\ lorenz_ed' = LorenzEd(s)
                /\ written' = written \cup {"LorenzAll.csv", "LorenzEd.csv"}
                /\ IF QcutRaises(Column(s, LAMBDA r : QMul(r.normweight, r.liqWealth)))
                   THEN \* line 334, after both tables were written
                        /\ Fail("ValueError", {})
                        /\ UNCHANGED <<results, quartileW, wealth_by_quartile>>
                   ELSE /\ quartileW' = QuartileFrame(s)
                        /\ wealth_by_quartile' = WealthByQuartile(QuartileFrame(s))
                        /\ results' = Results(s, <<m1, m2, m3>>)
                        /\ pc' = "done"
                        /\ exit_status' = <<0>>
                        /\ UNCHANGED <<err, message>>
    \* line 160 rebinds df to the sorted frame
    /\ passed' = df
    /\ UNCHANGED <<disk, raw, ccbal_df, merged, include_installment, df,
                   collapsed, trimmed>>
    /\ UNCHANGED <<tieringVars, adjustVars, toolVars>>

---------------------------------------------------------------------------
(* The education tiering, applied to a column of codes.                    *)

PipelineIdle == PipelineStart(Roster, {}, FALSE, AllPresent)

MaxCode == 5

MaxColumn == 3

\* The codes 0..MaxCode (1..4 are the codes of the survey) and the
\* missing code.
EducationCodes == { Q(c) : c \in 0..MaxCode } \cup {NaN}

InitEducation ==
    /\ PipelineIdle
    /\ AdjustIdle
    /\ ToolsIdle
    /\ \E n \in 1..MaxColumn : \E c \in [1..n -> EducationCodes] :
           edcl_column = c \o <<>>
    /\ myEd_main = <<>>
    /\ myEd_compare = <<>>

\* calculate_liquid_wealth, lines 100-102.
TierMain ==
    /\ myEd_main = <<>>
    /\ myEd_main' = Column(edcl_column, MyEd)
    /\ UNCHANGED <<edcl_column, myEd_compare, pipelineVars, adjustVars,
                   toolVars>>

\* compare_scf_datasets.load_and_analyze, lines 50-52.
TierCompare ==
    /\ myEd_compare = <<>>
    /\ myEd_compare' = Column(edcl_column, MyEdCompare)
    /\ UNCHANGED <<edcl_column, myEd_main, pipelineVars, adjustVars,
                   toolVars>>

NextEducation == TierMain \/ TierCompare

SpecEducation == InitEducation /\ [][NextEducation]_vars

----------------------------------------------------------------------------
(* adjust_scf_inflation.py: a .dta file is a set of column names and a     *)
(* sequence of rows, each row a function from the column names to values.  *)

\* 1.1587
INFLATION_FACTOR == Frac(11587, 10000)

DOLLAR_VARIABLES ==
    <<
      "income", "wageinc", "bussefarminc", "intdivinc", "kginc",
      "ssretinc", "transfothinc", "norminc", "networth", "asset",
      "fin", "nfin", "debt", "mrthel", "resdbt",
      "othloc", "ccbal", "install", "odebt", "liq",
      "cds", "nmmf", "stocks", "bond", "savbnd",
      "cashli", "othma", "othfin", "vehic", "houses",
      "oresre", "nnresre", "bus", "othnfin", "veh_inst"
    >>

QAbs(a) == <<Abs(a[1]), a[2]>>

\* df[var].abs().max(): missing values are skipped, nan when none is left.
AbsMax(frame, var) ==
    QMax({ QAbs(frame.rows[i][var]) : i \in DOMAIN frame.rows })

present_vars(frame) ==
    { var \in Range(DOLLAR_VARIABLES) : var \in frame.columns }

\* A conversion that divides every column with a non-zero value.
adjust_inflation_every_column(frame) ==
    [columns |-> frame.columns,
     rows |-> [i \in DOMAIN frame.rows |->
                 [c \in frame.columns |->
                     IF QLt(Q(0), AbsMax(frame, c))
                     THEN QDiv(frame.rows[i][c], INFLATION_FACTOR)
                     ELSE frame.rows[i][c]]] \o <<>>]

\* A conversion that leaves normal income as it is.
adjust_inflation_but_income(frame) ==
    [columns |-> frame.columns,
     rows |-> [i \in DOMAIN frame.rows |->
                 [c \in frame.columns |->
                     IF c \in present_vars(frame) \ {"norminc"}
                        /\ QLt(Q(0), AbsMax(frame, c))
                     THEN QDiv(frame.rows[i][c], INFLATION_FACTOR)
                     ELSE frame.rows[i][c]]] \o <<>>]

\* Lines 80-113: the frame read from input_file, as written to output_file.
adjust_inflation(frame) ==
    [columns |-> frame.columns,
     rows |-> [i \in DOMAIN frame.rows |->
                 [c \in frame.columns |->
                     IF c \in present_vars(frame) /\ QLt(Q(0), AbsMax(frame, c))
                     THEN QDiv(frame.rows[i][c], INFLATION_FACTOR)
                     ELSE frame.rows[i][c]]] \o <<>>]

MaxRows == 2

\* The fields of the survey extract that are not dollar amounts.
KeyColumns == {"yy1", "y1", "wgt", "age", "edcl"}

\* The dollar fields a file of the model may carry.
DollarSample == {"norminc", "ccbal"}

DollarValues == {Q(0), Q(11587), Q(-23174), NaN}

WeightValues == {Q(0), Frac(11587, 10000)}

\* Row i of a file with the dollar fields D: weight w, dollar values dv.
AdjustRow(D, i, w, dv) ==
    [c \in KeyColumns \cup D |->
        IF c \in D THEN dv[c]
        ELSE IF c = "yy1" THEN Q(i)
        ELSE IF c = "y1" THEN Q(10 * i + 1)
        ELSE IF c = "wgt" THEN w
        ELSE IF c = "age" THEN Q(40 + i)
        ELSE Q(i)]

InitAdjust ==
    /\ PipelineIdle
    /\ TieringIdle
    /\ ToolsIdle
    /\ adj_pc = "start"
    /\ \E D \in SUBSET DollarSample, n \in 0..MaxRows :
           \E w \in [1..n -> WeightValues], dv \in [1..n -> [D -> DollarValues]] :
               adj_input = [columns |-> KeyColumns \cup D,
                            rows |-> [i \in 1..n |->
                                        AdjustRow(D, i, w[i], dv[i])] \o <<>>]
    /\ adj_output = NoFile

\* adjust_inflation(input_file, output_file), lines 68-119.
AdjustInflation ==
    /\ adj_pc = "start"
    /\ adj_output' = adjust_inflation(adj_input)
    /\ adj_pc' = "done"
    /\ UNCHANGED <<adj_input, pipelineVars, tieringVars, toolVars>>

NextAdjust == AdjustInflation

SpecAdjust == InitAdjust /\ [][NextAdjust]_vars

----------------------------------------------------------------------------
(* reproduce.py: ReproductionScript.reproduce_all_results, which calls     *)
(* reproduce_all_computational_results and reproduce_documents.            *)

MaxAnswers == 2

\* What a user may type at a confirmation prompt.
Answers == {"yes", " YES ", "no", ""}

\* confirm = input(...).strip().lower()
StripLower(a) == IF a = " YES " THEN "yes" ELSE a

\* A script of reproduce/: missing, or present with the exit status it
\* ends with when it is run.
Script(present, returncode) ==
    [present |-> present, returncode |-> IF present THEN returncode ELSE 0]

\* 130 is returned when the run is interrupted from the keyboard.
ExitStatuses == {0, 1, 130}

InitReproduce ==
    /\ PipelineIdle
    /\ TieringIdle
    /\ AdjustIdle
    /\ CompareIdle /\ VerifyIdle /\ StashIdle
    /\ rep_pc = "all_confirm"
    /\ dry_run \in BOOLEAN
    /\ \E n \in 0..MaxAnswers : \E a \in [1..n -> Answers] : stdin = a \o <<>>
    /\ \E pc1, pc2 \in BOOLEAN, r1, r2 \in ExitStatuses :
           scripts = [reproduce_computed  |-> Script(pc1, r1),
                      reproduce_documents |-> Script(pc2, r2)]
    /\ comp_returncode = <<>>
    /\ docs_returncode = <<>>
    /\ rep_output = {}
    /\ rep_ret = <<>>

\* reproduce_all_results returns ret after printing line.
ReturnWith(ret, line) ==
    /\ rep_pc' = "returned"
    /\ rep_ret' = <<ret>>
    /\ rep_output' = rep_output \cup {line}

\* input() at end of file raises EOFError, which nothing here catches.
RaiseEOF ==
    /\ rep_pc' = "raised"
    /\ UNCHANGED <<rep_ret, rep_output, stdin>>

\* reproduce_all_results, lines 738-743.
ConfirmAll ==
    /\ rep_pc = "all_confirm"
    /\ IF dry_run
       THEN /\ rep_pc' = "comp_confirm"
            /\ UNCHANGED <<rep_ret, rep_output, stdin>>
       ELSE IF stdin = <<>> THEN RaiseEOF
       ELSE /\ stdin' = Tail(stdin)
            /\ IF StripLower(Head(stdin)) # "yes"
               THEN ReturnWith(0, "Cancelled.")
               ELSE /\ rep_pc' = "comp_confirm"
                    /\ UNCHANGED <<rep_ret, rep_output>>
    /\ UNCHANGED <<dry_run, scripts, comp_returncode, docs_returncode>>
    /\ UNCHANGED <<pipelineVars, tieringVars, adjustVars, compareVars,
                   verifyVars, stashVars>>

\* reproduce_all_computational_results, lines 702-707, called at line 748:
\* on any answer but yes it returns 0, and line 749 takes 0 for success.
ConfirmComputational ==
    /\ rep_pc = "comp_confirm"
    /\ IF dry_run
       THEN /\ rep_pc' = "comp_run"
            /\ UNCHANGED <<rep_ret, rep_output, stdin>>
       ELSE IF stdin = <<>> THEN RaiseEOF
       ELSE /\ stdin' = Tail(stdin)
            /\ IF StripLower(Head(stdin)) # "yes"
               THEN /\ rep_pc' = "documents"
                    /\ rep_output' = rep_output \cup {"Cancelled."}
                    /\ UNCHANGED rep_ret
               ELSE /\ rep_pc' = "comp_run"
                    /\ UNCHANGED <<rep_ret, rep_output>>
    /\ UNCHANGED <<dry_run, scripts, comp_returncode, docs_returncode>>
    /\ UNCHANGED <<pipelineVars, tieringVars, adjustVars, compareVars,
                   verifyVars, stashVars>>

\* reproduce_all_computational_results, lines 709-723, and the test of
\* its return value at lines 749-752.
RunComputational ==
    /\ rep_pc = "comp_run"
    /\ IF ~scripts.reproduce_computed.present
       THEN /\ ReturnWith(1, "Computational results failed.")
            /\ UNCHANGED comp_returncode
       ELSE IF dry_run
       THEN /\ rep_pc' = "documents"
            /\ rep_output' = rep_output \cup {"Would run"}
            /\ UNCHANGED <<rep_ret, comp_returncode>>
       ELSE /\ comp_returncode' = <<scripts.reproduce_computed.returncode>>
            /\ IF scripts.reproduce_computed.returncode # 0
               THEN ReturnWith(scripts.reproduce_computed.returncode,
                               "Computational results failed.")
               ELSE /\ rep_pc' = "documents"
                    /\ UNCHANGED <<rep_ret, rep_output>>
    /\ UNCHANGED <<dry_run, stdin, scripts, docs_returncode>>
    /\ UNCHANGED <<pipelineVars, tieringVars, adjustVars, compareVars,
                   verifyVars, stashVars>>

\* reproduce_documents(scope="all"), lines 366-389, called at line 757,
\* and lines 758-767.
CompileDocuments ==
    /\ rep_pc = "documents"
    /\ IF ~scripts.reproduce_documents.present
       THEN /\ ReturnWith(1, "Document compilation failed.")
            /\ UNCHANGED docs_returncode
       ELSE /\ docs_returncode' = <<scripts.reproduce_documents.returncode>>
            /\ IF scripts.reproduce_documents.returncode # 0
               THEN ReturnWith(scripts.reproduce_documents.returncode,
                               "Document compilation failed.")
               ELSE ReturnWith(0, "All reproduction steps completed!")
    /\ UNCHANGED <<dry_run, stdin, scripts, comp_returncode>>
    /\ UNCHANGED <<pipelineVars, tieringVars, adjustVars, compareVars,
                   verifyVars, stashVars>>

NextReproduce ==
    ConfirmAll \/ ConfirmComputational \/ RunComputational \/ CompileDocuments

SpecReproduce == InitReproduce /\ [][NextReproduce]_vars

---------------------------------------------------------------------------
\* reproduce/stash-tables-during-comp-min-run.py

\* The longest list of table paths given on the command line.
MaxTables == 2

\* The number of _min suffixes a listed table name may already carry.
MaxMin == 1

Stems == {"T1", "T2"}

\* A path below the project root: stem, the number of "_min" suffixes that
\* follow the stem, the extension ".tex", and ".backup" behind it or not.
FilePath(stem, mins, backup) ==
    [stem |-> stem, mins |-> mins, backup |-> backup]

\* The table paths that can be listed on the command line.
TablePaths == {FilePath(s, k, FALSE) : s \in Stems, k \in 0..MaxMin}

\* Every path the three actions can touch.
FilePaths == {FilePath(s, k, b) : s \in Stems, k \in 0..(MaxMin + 1),
                                  b \in BOOLEAN}

\* src.exists() is False.
Absent == <<>>

\* The content of the table at path t from the full computation.
FullContent(t) == [run |-> "full", of |-> t]

\* The content the minimal computation writes to the table at path t.
MinContent(t) == [run |-> "min", of |-> t]

\* Path(str(src) + '.backup')
BackupPath(src) == [src EXCEPT !.backup = TRUE]

\* parent / f"{stem}_min{suffix}"
MinPath(src) == [src EXCEPT !.mins = @ + 1]

\* shutil.copy2(src, dst)
copy2(f, src, dst) == [f EXCEPT ![dst] = f[src]]

\* shutil.move(src, dst): dst is replaced when it exists.
move(f, src, dst) == [f EXCEPT ![dst] = f[src], ![src] = Absent]

\* backup.unlink()
unlink(f, path) == [f EXCEPT ![path] = Absent]

RECURSIVE backup_tables(_, _)
backup_tables(f, ts) ==
    IF ts = <<>> THEN f
    ELSE LET src == Head(ts) IN
         backup_tables(IF f[src] = Absent THEN f
                       ELSE copy2(f, src, BackupPath(src)),
                       Tail(ts))

RECURSIVE rename_min(_, _)
rename_min(f, ts) ==
    IF ts = <<>> THEN f
    ELSE LET src == Head(ts) IN
         rename_min(IF f[src] = Absent THEN f
                    ELSE move(f, src, MinPath(src)),
                    Tail(ts))

RECURSIVE restore_tables(_, _)
restore_tables(f, ts) ==
    IF ts = <<>> THEN f
    ELSE LET src    == Head(ts)
             backup == BackupPath(src)
         IN  restore_tables(IF f[backup] = Absent THEN f
                            ELSE unlink(copy2(f, backup, src), backup),
                            Tail(ts))

\* The minimal computation writes every listed table anew.
RECURSIVE regenerate(_, _)
regenerate(f, ts) ==
    IF ts = <<>> THEN f
    ELSE regenerate([f EXCEPT ![Head(ts)] = MinContent(Head(ts))], Tail(ts))

\* The project directory before the backup: some of the table paths hold
\* the table of the full computation, no backup file is there.
InitStash ==
    /\ PipelineIdle
    /\ TieringIdle
    /\ AdjustIdle
    /\ CompareIdle /\ VerifyIdle /\ ReproduceIdle
    /\ st_pc = "backup"
    /\ \E n \in 0..MaxTables : \E ts \in [1..n -> TablePaths] :
           tables = ts \o <<>>
    /\ \E present \in SUBSET TablePaths :
           fs = [p \in FilePaths |->
                    IF p \in present THEN FullContent(p) ELSE Absent]
    /\ fs_before = fs

StashStep(next_pc, f) ==
    /\ st_pc' = next_pc
    /\ fs' = f
    /\ UNCHANGED <<tables, fs_before>>
    /\ UNCHANGED <<pipelineVars, tieringVars, adjustVars, compareVars,
                   verifyVars, reproduceVars>>

\* main with no table on the command line: usage and exit status 1.
NoTablesSpecified ==
    /\ st_pc = "backup"
    /\ tables = <<>>
    /\ StashStep("exit1", fs)

\* main with action 'backup'.
Backup ==
    /\ st_pc = "backup"
    /\ tables # <<>>
    /\ StashStep("regenerate", backup_tables(fs, tables))

\* The minimal computational run between 'backup' and 'rename_min'.
Regenerate ==
    /\ st_pc = "regenerate"
    /\ StashStep("rename_min", regenerate(fs, tables))

\* main with action 'rename_min'.
RenameMin ==
    /\ st_pc = "rename_min"
    /\ StashStep("restore", rename_min(fs, tables))

\* main with action 'restore'.
Restore ==
    /\ st_pc = "restore"
    /\ StashStep("restored", restore_tables(fs, tables))

NextStash == NoTablesSpecified \/ Backup \/ Regenerate \/ RenameMin \/ Restore

SpecStash == InitStash /\ [][NextStash]_vars

---------------------------------------------------------------------------
\* Code/Empirical/compare_scf_datasets.py

\* Line 54: the rows of the first implicate.
FirstImplicate(d) == Filter(d, LAMBDA r : r.y1 % 10 = 1)

\* Lines 41-52: the selected sample with the liquid-wealth and education
\* columns added.
AnalysisFrame(data, aux) ==
    Column(merge_and_filter(data, aux), LAMBDA r :
        [f \in DOMAIN r \cup {"tempLiqWealthKaplan", "myEd"} |->
            IF f = "tempLiqWealthKaplan" THEN TempLiqWealthKaplan(r)
            ELSE IF f = "myEd" THEN Q(MyEdCompare(r.edcl))
            ELSE r[f]])

\* groupby('yy1')[col].first(): households in ascending order, for each
\* the first value of its rows that is not missing.
GroupFirst(d, col) ==
    LET hs == Ascending({ d[i].yy1 : i \in DOMAIN d })
        present(h) == Filter(d, LAMBDA r : r.yy1 = h /\ ~IsNaN(r[col]))
    IN  [k \in 1..Len(hs) |->
           IF present(hs[k]) = <<>> THEN NaN
           ELSE present(hs[k])[1][col]] \o <<>>

HasNaN(v) == \E i \in DOMAIN v : IsNaN(v[i])

\* np.median: nan for an empty array or one that holds a nan.
np_median(v) ==
    IF v = <<>> \/ HasNaN(v) THEN NaN
    ELSE LET s == SortValues(v)
             n == Len(s)
         IN  IF n % 2 = 1 THEN s[(n + 1) \div 2]
             ELSE QDiv(QAdd(s[n \div 2], s[n \div 2 + 1]), Q(2))

\* np.average(v, weights=w) raises ZeroDivisionError when the weights sum
\* to zero.
AverageRaises(w) == QEq(QSum(w), Q(0))

np_average(v, w) ==
    QDiv(QSum([i \in DOMAIN v |-> QMul(v[i], w[i])] \o <<>>), QSum(w))

\* Series.min(): missing values are skipped, nan when none is left.
series_min(v) ==
    LET T == { x \in Range(v) : ~IsNaN(x) }
    IN  IF T = {} THEN NaN ELSE CHOOSE x \in T : \A y \in T : QLe(x, y)

\* np.percentile(v, pct) of a non-empty array, by linear interpolation.
np_percentile(v, pct) ==
    IF HasNaN(v) THEN NaN
    ELSE LET s  == SortValues(v)
             h  == (Len(s) - 1) * pct
             lo == h \div 100
             fr == h % 100
         IN  IF fr = 0 THEN s[lo + 1]
             ELSE QAdd(s[lo + 1],
                       QMul(Frac(fr, 100), QSub(s[lo + 2], s[lo + 1])))

\* 1.0 where the test holds, 0.0 elsewhere.
Indicator(b) == IF b THEN Q(1) ELSE Q(0)

\* load_and_analyze raises in np.average (line 68).
AnalyzeRaises(data, aux) ==
    AverageRaises(GroupFirst(FirstImplicate(AnalysisFrame(data, aux)), "wgt"))

\* The dictionary load_and_analyze returns (lines 57-104) when it does not
\* raise.
load_and_analyze(data, aux) ==
    LET d          == AnalysisFrame(data, aux)
        df_imp1    == FirstImplicate(d)
        hh_income  == GroupFirst(df_imp1, "norminc")
        hh_wgt     == GroupFirst(df_imp1, "wgt")
        hh_wealth  == GroupFirst(df_imp1, "tempLiqWealthKaplan")
        hh_age     == GroupFirst(df_imp1, "age")
        hh_ed      == GroupFirst(df_imp1, "myEd")
        ratio      == [i \in DOMAIN hh_wealth |->
                         QDiv(hh_wealth[i], hh_income[i])] \o <<>>
        frac_ed(e) == np_average(Column(hh_ed, LAMBDA x : Indicator(QEq(x, Q(e)))),
                                 hh_wgt)
    IN  [n_observations    |-> Len(d),
         n_households      |-> Cardinality({ d[i].yy1 : i \in DOMAIN d }),
         median_income     |-> np_median(hh_income),
         mean_income       |-> np_average(hh_income, hh_wgt),
         min_income        |-> series_min(hh_income),
         median_liq_wealth |-> np_median(hh_wealth),
         mean_liq_wealth   |-> np_average(hh_wealth, hh_wgt),
         median_wealth_income_ratio |-> np_median(ratio),
         frac_negative_wealth |->
             np_average(Column(hh_wealth, LAMBDA x : Indicator(QLt(x, Q(0)))),
                        hh_wgt),
         mean_age          |-> np_average(hh_age, hh_wgt),
         frac_ed_1         |-> frac_ed(1),
         frac_ed_2         |-> frac_ed(2),
         frac_ed_3         |-> frac_ed(3),
         p10_liq_wealth    |-> np_percentile(hh_wealth, 10),
         p25_liq_wealth    |-> np_percentile(hh_wealth, 25),
         p50_liq_wealth    |-> np_percentile(hh_wealth, 50),
         p75_liq_wealth    |-> np_percentile(hh_wealth, 75),
         p90_liq_wealth    |-> np_percentile(hh_wealth, 90)]

dollar_metrics ==
    <<"median_income", "mean_income", "min_income", "median_liq_wealth",
      "mean_liq_wealth", "p10_liq_wealth", "p25_liq_wealth",
      "p50_liq_wealth", "p75_liq_wealth", "p90_liq_wealth">>

non_dollar_metrics ==
    <<"median_wealth_income_ratio", "frac_negative_wealth", "mean_age",
      "frac_ed_1", "frac_ed_2", "frac_ed_3">>

\* git_val != 0: true of nan as well.
IsZero(x) == QEq(x, Q(0))

\* Lines 144 and 168.
pct_diff(latest_val, git_val) ==
    IF IsZero(git_val) THEN Q(0)
    ELSE QMul(QDiv(QAbs(QSub(latest_val, git_val)), QAbs(git_val)), Hundred)

\* max(a, b) of Python: b when b > a, else a (so a nan b is dropped).
PyMax(a, b) == IF QLt(a, b) THEN b ELSE a

\* The running maximum after the first n metrics of the loop.
RECURSIVE max_diff(_, _, _, _)
max_diff(metrics, git, latest, n) ==
    IF n = 0 THEN Q(0)
    ELSE PyMax(max_diff(metrics, git, latest, n - 1),
               pct_diff(latest[metrics[n]], git[metrics[n]]))

ExcellentDollar == Frac(5, 100)

ExcellentNonDollar == Frac(1, 100)

GoodDollar == Frac(1, 10)

\* A verdict that takes the larger of the two maxima at both tiers.
Verdict_overall(md, mn) ==
    IF QLt(PyMax(md, mn), ExcellentDollar) THEN "EXCELLENT MATCH"
    ELSE IF QLt(PyMax(md, mn), GoodDollar) THEN "GOOD MATCH"
    ELSE "SIGNIFICANT DIFFERENCES DETECTED"

\* Lines 183-194.
Verdict(md, mn) ==
    IF QLt(md, ExcellentDollar) /\ QLt(mn, ExcellentNonDollar)
    THEN "EXCELLENT MATCH"
    ELSE IF QLt(md, GoodDollar) THEN "GOOD MATCH"
    ELSE "SIGNIFICANT DIFFERENCES DETECTED"

\* The columns of the survey extract that load_and_analyze uses.
ExtractColumns ==
    {"yy1", "y1", "wgt", "age", "edcl", "norminc", "liq", "cds", "nmmf",
     "stocks", "bond", "ccbal", "install", "veh_inst"}

\* The extract in the dollars of the later year: every dollar field times
\* the inflation factor.
Rescaled(rows) ==
    [i \in DOMAIN rows |->
        [c \in DOMAIN rows[i] |->
            IF c \in Range(DOLLAR_VARIABLES)
            THEN QMul(rows[i][c], INFLATION_FACTOR)
            ELSE rows[i][c]]] \o <<>>

\* The largest sample of the comparison.
MaxSample == 3

CompareStart(git_rows, aux_rows) ==
    /\ cmp_pc = "start"
    /\ cmp_git = git_rows
    /\ cmp_ccbal = aux_rows
    /\ results_git = <<>>
    /\ results_latest = <<>>
    /\ max_dollar_diff = <<>>
    /\ max_nondollar_diff = <<>>
    /\ verdict = "none"
    /\ cmp_exit = <<>>

\* GIT_FILE holds a sample of the roster; the file to adjust holds the
\* same sample, in the dollars of the later year or unchanged.
InitRoundTrip ==
    /\ PipelineIdle
    /\ TieringIdle
    /\ VerifyIdle /\ StashIdle /\ ReproduceIdle
    /\ \E S \in SUBSET DOMAIN Roster, later \in BOOLEAN :
           /\ Cardinality(S) <= MaxSample
           /\ CompareStart(RawRows(Roster, S), AuxRows(Roster, S))
           /\ adj_input = [columns |-> ExtractColumns,
                           rows |-> IF later THEN Rescaled(RawRows(Roster, S))
                                    ELSE RawRows(Roster, S)]
    /\ adj_pc = "start"
    /\ adj_output = NoFile

CompareStep(next_pc, rg, rl, md, mn, v, ret) ==
    /\ cmp_pc' = next_pc
    /\ results_git' = rg
    /\ results_latest' = rl
    /\ max_dollar_diff' = md
    /\ max_nondollar_diff' = mn
    /\ verdict' = v
    /\ cmp_exit' = ret
    /\ UNCHANGED <<cmp_git, cmp_ccbal>>
    /\ UNCHANGED <<pipelineVars, tieringVars, adjustVars, verifyVars,
                   stashVars, reproduceVars>>

CompareFails ==
    CompareStep("failed", results_git, results_latest, max_dollar_diff,
                max_nondollar_diff, verdict, <<1>>)

\* main, lines 211-225: LATEST_FILE must exist.
CheckFiles ==
    /\ cmp_pc = "start"
    /\ IF adj_output = NoFile THEN CompareFails
       ELSE CompareStep("analyze_git", results_git, results_latest,
                        max_dollar_diff, max_nondollar_diff, verdict, cmp_exit)

\* main, line 241.
AnalyzeGit ==
    /\ cmp_pc = "analyze_git"
    /\ IF AnalyzeRaises(cmp_git, cmp_ccbal) THEN CompareFails
       ELSE CompareStep("analyze_latest", load_and_analyze(cmp_git, cmp_ccbal),
                        results_latest, max_dollar_diff, max_nondollar_diff,
                        verdict, cmp_exit)

\* main, line 244.
AnalyzeLatest ==
    /\ cmp_pc = "analyze_latest"
    /\ IF AnalyzeRaises(adj_output.rows, cmp_ccbal) THEN CompareFails
       ELSE CompareStep("compare", results_git,
                        load_and_analyze(adj_output.rows, cmp_ccbal),
                        max_dollar_diff, max_nondollar_diff, verdict, cmp_exit)

\* print_comparison(results_git, results_latest), then main returns 0.
PrintComparison ==
    /\ cmp_pc = "compare"
    /\ LET md == max_diff(dollar_metrics, results_git, results_latest,
                          Len(dollar_metrics))
           mn == max_diff(non_dollar_metrics, results_git, results_latest,
                          Len(non_dollar_metrics))
       IN  CompareStep("done", results_git, results_latest, md, mn,
                       Verdict(md, mn), <<0>>)

NextRoundTrip ==
    AdjustInflation \/ CheckFiles \/ AnalyzeGit \/ AnalyzeLatest
    \/ PrintComparison

SpecRoundTrip == InitRoundTrip /\ [][NextRoundTrip]_vars

---------------------------------------------------------------------------
\* print_comparison on its own, and adjust_scf_inflation.py run as a script

\* A dictionary of load_and_analyze: two households, ten observations.
BaseResults ==
    [n_observations    |-> 10,
     n_households      |-> 2,
     median_income     |-> Q(60),
     mean_income       |-> Q(64),
     min_income        |-> Q(40),
     median_liq_wealth |-> Q(100),
     mean_liq_wealth   |-> Q(100),
     median_wealth_income_ratio |-> Frac(5, 3),
     frac_negative_wealth |-> Frac(1, 2),
     mean_age          |-> Q(40),
     frac_ed_1         |-> Q(0),
     frac_ed_2         |-> Frac(1, 2),
     frac_ed_3         |-> Frac(1, 2),
     p10_liq_wealth    |-> Q(100),
     p25_liq_wealth    |-> Q(100),
     p50_liq_wealth    |-> Q(100),
     p75_liq_wealth    |-> Q(100),
     p90_liq_wealth    |-> Q(100)]

\* Median liquid wealth of the reference and of the candidate: equal, or
\* apart by 0.04, 0.07 or 0.2 percent of 100.
GitWealth == {Q(0), Q(100), Q(-100)}

LatestWealth ==
    {Q(100), Frac(10004, 100), Frac(10007, 100), Frac(1002, 10), NaN}

\* The weighted share with negative wealth: equal, or apart by 0.004, 0.03
\* or 50 percent of one half.
GitShare == {Q(0), Frac(1, 2)}

LatestShare ==
    {Frac(1, 2), Frac(50002, 100000), Frac(50015, 100000), Frac(3, 4)}

\* print_comparison is about to be called on two dictionaries.
InitDictionaries ==
    /\ PipelineIdle
    /\ TieringIdle
    /\ AdjustIdle
    /\ VerifyIdle /\ StashIdle /\ ReproduceIdle
    /\ cmp_pc = "compare"
    /\ cmp_git = <<>>
    /\ cmp_ccbal = <<>>
    /\ \E gw \in GitWealth, lw \in LatestWealth,
          gs \in GitShare, ls \in LatestShare :
           /\ results_git = [BaseResults EXCEPT !.median_liq_wealth = gw,
                                                !.frac_negative_wealth = gs]
           /\ results_latest = [BaseResults EXCEPT !.median_liq_wealth = lw,
                                                   !.frac_negative_wealth = ls]
    /\ max_dollar_diff = <<>>
    /\ max_nondollar_diff = <<>>
    /\ verdict = "none"
    /\ cmp_exit = <<>>

test_vars == <<"income", "networth", "norminc">>

\* The dollar amounts of rscfp2004_2013USD.dta in the model.
OriginalValues == {Q(0), Q(10000), Q(-20000)}

\* The dollar amounts of the input file in the model.
InputValues == {Q(0), Q(11587), Q(-23174)}

\* Row i of a file: implicate k of household i with normal income v.
VerifyRow(i, k, v) ==
    [c \in KeyColumns \cup {"norminc"} |->
        IF c = "norminc" THEN v
        ELSE IF c = "yy1" THEN Q(i)
        ELSE IF c = "y1" THEN Q(10 * i + k)
        ELSE IF c = "wgt" THEN Q(1)
        ELSE IF c = "age" THEN Q(40 + i)
        ELSE Q(2)]

\* The frame without the column c.
WithoutColumn(frame, c) ==
    [columns |-> frame.columns \ {c},
     rows |-> [i \in DOMAIN frame.rows |->
                 [x \in frame.columns \ {c} |-> frame.rows[i][x]]] \o <<>>]

\* adjust_scf_inflation.py INPUT.dta OUTPUT.dta is started; beside the
\* input there may be a file rscfp2004_2013USD.dta.
InitScript ==
    /\ PipelineIdle
    /\ TieringIdle
    /\ CompareIdle /\ StashIdle /\ ReproduceIdle
    /\ adj_pc = "start"
    /\ \E n \in 0..MaxRows :
         \E k \in [1..n -> {1, 2}], v \in [1..n -> InputValues] :
           adj_input = [columns |-> KeyColumns \cup {"norminc"},
                        rows |-> [i \in 1..n |-> VerifyRow(i, k[i], v[i])]
                                     \o <<>>]
    /\ adj_output = NoFile
    /\ ver_pc = "start"
    /\ \/ ver_orig = NoFile
       \/ \E n \in 0..MaxRows, has \in BOOLEAN :
            \E v \in [1..n -> OriginalValues] :
              LET frame == [columns |-> KeyColumns \cup {"norminc"},
                            rows |-> [i \in 1..n |-> VerifyRow(i, 1, v[i])]
                                         \o <<>>]
              IN  ver_orig = IF has THEN frame
                             ELSE WithoutColumn(frame, "norminc")
    /\ ver_pct = <<>>

InitCompare == InitDictionaries \/ InitScript

\* df[df['y1'] % 10 == 1] on a frame whose y1 is a float column.
FirstImplicateRows(frame) ==
    Filter(frame.rows, LAMBDA r : r["y1"][2] = 1 /\ r["y1"][1] % 10 = 1)

\* Series.median(): missing values are skipped, nan when none is left.
series_median(v) == np_median(Filter(v, LAMBDA x : ~IsNaN(x)))

\* The median of column var over the first implicate.
first_implicate_median(frame, var) ==
    series_median(Column(FirstImplicateRows(frame), LAMBDA r : r[var]))

\* Lines 152-153.
verify_pct_diff(orig_med, adj_med) ==
    IF IsZero(orig_med) THEN Q(0)
    ELSE QMul(QDiv(QAbs(QSub(orig_med, adj_med)), orig_med), Hundred)

\* The percentages verify_adjustment prints, by variable.
verify_adjustment(orig, adj) ==
    [var \in { x \in Range(test_vars) :
                 x \in orig.columns /\ x \in adj.columns } |->
        verify_pct_diff(first_implicate_median(orig, var),
                        first_implicate_median(adj, var))]

\* Lines 179-182: after adjust_inflation, verify_adjustment is called when
\* rscfp2004_2013USD.dta exists.
VerifyAdjustment ==
    /\ ver_pc = "start"
    /\ adj_pc = "done"
    /\ IF ver_orig = NoFile
       THEN ver_pc' = "skipped" /\ UNCHANGED ver_pct
       ELSE ver_pc' = "done" /\ ver_pct' = verify_adjustment(ver_orig, adj_output)
    /\ UNCHANGED ver_orig
    /\ UNCHANGED <<pipelineVars, tieringVars, adjustVars, compareVars,
                   stashVars, reproduceVars>>

NextCompare == PrintComparison \/ AdjustInflation \/ VerifyAdjustment

SpecCompare == InitCompare /\ [][NextCompare]_vars

---------------------------------------------------------------------------

Next == LoadData \/ MergeAndFilter \/ CalculateLiquidWealth \/ CalculateStatistics

Spec == Init /\ [][Next]_vars

SpecUniform == InitUniform /\ [][Next]_vars

---------------------------------------------------------------------------
(* Properties.                                                             *)

\* calculate_liquid_wealth has returned its panel to main().
WealthReturned ==
    pc \in {"wealth", "done"} \/ (pc = "failed" /\ err # "FileNotFoundError")

\* calculate_statistics got as far as writing both Lorenz tables.
TablesWritten == pc = "done" \/ (pc = "failed" /\ err = "ValueError")

\* The row of the panel for household h.
PanelRow(h) == CHOOSE r \in Range(df) : r.yy1 = h

NonDecreasing(c) == \A i \in 1..(Len(c) - 1) : QLe(c[i], c[i + 1])

EndsAt100(c) == c # <<>> /\ c[Len(c)] = Hundred

\* The rows t (of a Lorenz table) come in ascending (liqWealth, yy1) order.
InLorenzOrder(t) ==
    \A i \in 1..(Len(t) - 1) :
        \/ QLt(PanelRow(t[i].yy1).liqWealth, PanelRow(t[i + 1].yy1).liqWealth)
        \/ /\ PanelRow(t[i].yy1).liqWealth = PanelRow(t[i + 1].yy1).liqWealth
           /\ t[i].yy1 < t[i + 1].yy1

PopulationLorenzOk ==
    /\ InLorenzOrder(lorenz_all)
    /\ Range(Column(lorenz_all, LAMBDA r : r.yy1)) =
       Range(Column(df, LAMBDA r : r.yy1))
    /\ NonDecreasing(Column(lorenz_all, LAMBDA r : r.sumNormW))
    /\ EndsAt100(Column(lorenz_all, LAMBDA r : r.sumNormW))
    /\ NonDecreasing(Column(lorenz_all, LAMBDA r : r.sumLWall))
    /\ EndsAt100(Column(lorenz_all, LAMBDA r : r.sumLWall))

TierPopulationOk(ed) ==
    /\ InLorenzOrder(Tier(lorenz_ed, ed))
    /\ Len(Tier(lorenz_ed, ed)) = Len(Tier(df, ed))
    /\ NonDecreasing(Column(Tier(lorenz_ed, ed), LAMBDA r : r.sumEdW))
    /\ EndsAt100(Column(Tier(lorenz_ed, ed), LAMBDA r : r.sumEdW))

TierWealthOk(ed) ==
    /\ NonDecreasing(Column(Tier(lorenz_ed, ed), LAMBDA r : r.sumLW))
    /\ EndsAt100(Column(Tier(lorenz_ed, ed), LAMBDA r : r.sumLW))

PositiveWealth(d) == QLt(Q(0), WeightedWealth(d))

\* C1 as claimed: whenever the Lorenz tables are written for a panel with
\* positive total weighted wealth, sumNormW and sumLWall are non-decreasing
\* and end at 100, and so are sumEdW and sumLW inside every tier.
C1_LorenzEveryTier ==
    (TablesWritten /\ PositiveWealth(df)) =>
        /\ PopulationLorenzOk
        /\ \A ed \in Tiers : TierPopulationOk(ed) /\ TierWealthOk(ed)

\* C1 amended: whenever the Lorenz tables are written for a panel with
\* positive total weighted wealth, sumNormW and sumLWall (in ascending
\* (liqWealth, yy1) order) are non-decreasing and end at 100; inside every
\* tier sumEdW is non-decreasing and ends at 100, and so is sumLW in every
\* tier whose own total weighted wealth is positive.
C1_LorenzPositiveTiers ==
    (TablesWritten /\ PositiveWealth(df)) =>
        /\ PopulationLorenzOk
        /\ \A ed \in Tiers :
              /\ TierPopulationOk(ed)
              /\ PositiveWealth(Tier(df, ed)) => TierWealthOk(ed)

\* Both tables are written for a panel of at least four households, one
\* tier of which holds two households with different positive wealth.
C1_Witness ==
    /\ TablesWritten
    /\ Len(lorenz_all) >= 4
    /\ \E ed \in Tiers :
          /\ Len(Tier(lorenz_ed, ed)) >= 2
          /\ QLt(Q(0), Tier(lorenz_ed, ed)[1].sumLW)
          /\ QLt(Tier(lorenz_ed, ed)[1].sumLW, Hundred)

\* calculate_statistics has ended, by returning or by raising.
StatisticsEnded ==
    pc = "done" \/ (pc = "failed" /\ err # "FileNotFoundError")

\* The raw record set is the one of the four equally weighted households
\* of one tier with liquid wealth 0, 10, 20, 70.
IsScenario == raw = RawRows(ScenarioRoster, 1..4)

\* The largest sumLWall among the Lorenz points strictly below pct.
StepLookup(pct) ==
    QMax({ r.sumLWall : r \in { x \in Range(lorenz_all) : QLt(x.sumNormW, Q(pct)) } })

\* The stored readout is the step lookup, as stored, to two decimals.
ReadoutIsStepLookup(pct) ==
    LET lc == results.lorenz_all[pct]
        mx == StepLookup(pct)
    IN  \/ IsNaN(lc) /\ IsNaN(mx)
        \/ /\ IsFinite(lc) /\ IsFinite(mx)
           /\ QLe(QSub(lc, mx), Frac(5, 1000))
           /\ QLe(QSub(mx, lc), Frac(5, 1000))

\* C2: whenever calculate_statistics returns, each readout LC_all_t is the
\* largest sumLWall among the households with sumNormW strictly below t
\* (as stored, to two decimals); and on the panel of four equally weighted
\* households of one tier with wealth 0, 10, 20, 70 calculate_statistics
\* returns, the Lorenz point at population share 75 carries wealth share 30
\* and the readout for threshold 80 is 30.
C2_BucketReadout ==
    /\ pc = "done" => \A pct \in Thresholds : ReadoutIsStepLookup(pct)
    /\ (IsScenario /\ StatisticsEnded) =>
          /\ pc = "done"
          /\ \E r \in Range(lorenz_all) :
                r.sumNormW = Q(75) /\ r.sumLWall = Q(30)
          /\ results.lorenz_all[80] = Q(30)

\* The collapsed households are equally weighted, with pairwise distinct
\* permanent income, and their number is a multiple of 20.
UniformPanel ==
    /\ collapsed # <<>>
    /\ Len(collapsed) % Block = 0
    /\ \A i, j \in DOMAIN collapsed :
          /\ collapsed[i].weight = collapsed[j].weight
          /\ i # j => collapsed[i].permInc # collapsed[j].permInc

\* The k households of the collapsed panel with the lowest permanent income.
LowestIncome(k) ==
    { r.yy1 : r \in { x \in Range(collapsed) :
        Cardinality({ y \in Range(collapsed) : QLt(y.permInc, x.permInc) }) < k } }

\* C3 as claimed: of n equally weighted households with pairwise distinct
\* permanent income, n a multiple of 20, the trimming removes exactly the
\* n/20 with the lowest permanent income (5 of 100).
C3_TrimsTwentieth ==
    (WealthReturned /\ UniformPanel) =>
        /\ Cardinality(trimmed) = Len(collapsed) \div Block
        /\ trimmed = LowestIncome(Len(collapsed) \div Block)

\* C3 amended: of n equally weighted households with pairwise distinct
\* permanent income, n a multiple of 20, the trimming removes exactly the
\* n/20 - 1 with the lowest permanent income (4 of 100): the household at
\* which the cumulative normalized weight equals 0.05 is kept.
C3_TrimsBelowTwentieth ==
    (WealthReturned /\ UniformPanel) =>
        /\ Cardinality(trimmed) = (Len(collapsed) \div Block) - 1
        /\ trimmed = LowestIncome((Len(collapsed) \div Block) - 1)

\* 100 equally weighted households were trimmed, and 4 of them removed.
C3_Witness ==
    /\ WealthReturned /\ UniformPanel
    /\ Len(collapsed) = 100
    /\ Cardinality(trimmed) = 4

\* The edWeight of the households of tier ed picked out by Test.
TierWeightWhere(ed, Test(_)) ==
    QSum(Column(Filter(Tier(df, ed), Test), LAMBDA r : r.edWeight))

TierRatios(ed) == Range(Column(Tier(df, ed), IndLWoPI))

\* m is the tier's ratio at the smallest index, in ascending ratio order
\* (undefined ratios last), at which the cumulative edWeight is at least
\* half of the tier's total edWeight: the households before m weigh less
\* than half, those up to and including m at least half.
AtFirstCrossing(ed, m) ==
    LET half == QDiv(TierWeightWhere(ed, LAMBDA r : TRUE), Q(2))
    IN  /\ m \in TierRatios(ed)
        /\ QLt(TierWeightWhere(ed, LAMBDA r : KeyLess(IndLWoPI(r), m)), half)
        /\ QGe(TierWeightWhere(ed, LAMBDA r : ~KeyLess(m, IndLWoPI(r))), half)

\* m lies between two of the tier's observed ratios.
WithinObserved(ed, m) ==
    \E lo, hi \in TierRatios(ed) : QLe(lo, m) /\ QLe(m, hi)

InQuartile(q) == { r \in Range(quartileW) : r.quartileW = q }

QuartileWeight(q) ==
    QSum(Column(Filter(quartileW, LAMBDA r : r.quartileW = q),
                LAMBDA r : r.normweight))

LargestWeight == QMax({ r.normweight : r \in Range(quartileW) })

\* C5: whenever the quartile step has run, each of the 4 bins holds one
\* quarter of the total normalized weight, up to the weight of a single
\* household, and every household in quartile q has liquid wealth no
\* greater than every household in quartile q+1.
C5_QuartilesByWealth ==
    pc = "done" =>
        /\ \A q \in Quartiles :
              /\ QLe(QSub(QuartileWeight(q), Frac(1, NQuantiles)), LargestWeight)
              /\ QLe(QSub(Frac(1, NQuantiles), QuartileWeight(q)), LargestWeight)
        /\ \A q \in 1..(NQuantiles - 1) :
              \A a \in InQuartile(q), b \in InQuartile(q + 1) :
                  QLe(a.liqWealth, b.liqWealth)

\* The share of quartile q in total weighted wealth, in percent, before
\* rounding.
QuartileShare(q) ==
    QMul(QDiv(wealth_by_quartile[q], WeightedWealth(df)), Hundred)

\* C6: whenever the quartile step has produced its four bins, the four
\* shares of total weighted wealth sum to 100 before rounding and the
\* share of quartile 4 is at least the share of quartile 1.
C6_QuartileShares ==
    pc = "done" =>
        /\ QSum([q \in Quartiles |-> QuartileShare(q)]) = Hundred
        /\ QGe(QuartileShare(NQuantiles), QuartileShare(1))

\* C7: after calculate_liquid_wealth, whenever at least one household is
\* returned, the normweight values of the returned households sum to 1:
\* each is the household's weight divided by the total weight of the
\* households that survived the trimming and the negative-wealth filter.
C7_NormweightSumsToOne ==
    (WealthReturned /\ df # <<>>) =>
        LET total == QSum(Column(df, LAMBDA r : r.weight))
        IN  /\ QSum(Column(df, LAMBDA r : r.normweight)) = Q(1)
            /\ \A r \in Range(df) : r.normweight = QDiv(r.weight, total)

\* A panel was returned after the trimming removed a household and the
\* negative-wealth filter another one.
C7_Witness ==
    /\ WealthReturned
    /\ trimmed # {}
    /\ Len(df) + Cardinality(trimmed) < Len(collapsed)
    /\ Len(df) >= 2

\* C8: after calculate_liquid_wealth, in every education tier with a
\* returned household the edWeight values sum to 1, and edfrac of each
\* household is the sum of normweight over its tier.
C8_EdWeightSumsToOne ==
    WealthReturned =>
        \A ed \in Tiers :
            Tier(df, ed) # <<>> =>
                /\ QSum(Column(Tier(df, ed), LAMBDA r : r.edWeight)) = Q(1)
                /\ \A r \in Range(Tier(df, ed)) :
                      r.edfrac = QSum(Column(Tier(df, ed), LAMBDA x : x.normweight))

\* A panel was returned with households in two tiers at least, two of
\* them in the same tier.
C8_Witness ==
    /\ WealthReturned
    /\ \E e1, e2 \in Tiers :
          e1 # e2 /\ Len(Tier(df, e1)) >= 2 /\ Len(Tier(df, e2)) >= 1

\* The households with a row in the result of merge_and_filter.
SelectedHouseholds == { r.yy1 : r \in Range(merge_and_filter(raw, ccbal_df)) }

\* C9: the collapse leaves exactly one row per household that passed
\* sample selection: no household twice, and no selected household lost.
C9_OneRowPerHousehold ==
    WealthReturned =>
        /\ \A i, j \in DOMAIN collapsed :
              i # j => collapsed[i].yy1 # collapsed[j].yy1
        /\ { r.yy1 : r \in Range(collapsed) } = SelectedHouseholds

\* All implicate rows of household h in the raw record set, after the
\* merge (ccbal forced to zero where the auxiliary flag says so).
ImplicateRows(h) ==
    Filter(Column(MergeLeft(raw, ccbal_df), ForceCcbal), LAMBDA r : r.yy1 = h)

\* C10: for every household observation returned, weight is 5 times the
\* mean of wgt over all implicate rows of the household in the raw record
\* set, and permInc and the two liquid-wealth measures are the means over
\* all of those rows.
C10_MeansOverAllImplicates ==
    WealthReturned =>
        \A r \in Range(df) :
            LET rows == ImplicateRows(r.yy1)
            IN  /\ r.weight = QMul(QMean(Column(rows, LAMBDA x : x.wgt)),
                                   Q(WeightMultiplier))
                /\ r.permInc = QMean(Column(rows, LAMBDA x : x.norminc))
                /\ r.liqWealthKaplan = QMean(Column(rows, TempLiqWealthKaplan))
                /\ r.liqWealthInst = QMean(Column(rows, TempLiqWealthInst))

\* merge_and_filter has returned its panel to main().
MergeReturned == pc = "merged" \/ WealthReturned

\* The auxiliary table holds at most one row per y1.
UniquelyKeyed(aux) ==
    \A i, j \in DOMAIN aux : aux[i].y1 = aux[j].y1 => i = j

\* The auxiliary table flags the implicate y1 with x432 = 1.
NoBalanceFlag(y1) ==
    \E a \in Range(ccbal_df) : a.y1 = y1 /\ a.x432 = Q(1)

\* C11: with an auxiliary table keyed uniquely by y1, the frame after the
\* merge holds the raw rows, each once and in their order, with ccbal 0 on
\* the rows whose auxiliary flag x432 is 1 and the raw ccbal on every
\* other row, matched or not.
C11_LeftJoinForcesCcbal ==
    (MergeReturned /\ UniquelyKeyed(ccbal_df)) =>
        /\ Len(merged) = Len(raw)
        /\ \A i \in DOMAIN raw :
              merged[i] = IF NoBalanceFlag(raw[i].y1)
                          THEN [raw[i] EXCEPT !.ccbal = Q(0)]
                          ELSE raw[i]

\* The merge has run on a household that reported a balance of 500: on a
\* flagged implicate it became 0, on an implicate without any auxiliary
\* row it stayed 500.
C11_Witness ==
    /\ MergeReturned
    /\ \E i, j \in DOMAIN raw :
          /\ raw[i].ccbal = Q(500) /\ NoBalanceFlag(raw[i].y1)
          /\ merged[i].ccbal = Q(0)
          /\ raw[j].ccbal = Q(500) /\ merged[j].ccbal = Q(500)
          /\ \A a \in Range(ccbal_df) : a.y1 # raw[j].y1

\* The mean of age over all implicate rows of household h in the raw
\* record set.
HouseholdMeanAge(h) ==
    QMean(Column(Filter(raw, LAMBDA r : r.yy1 = h), LAMBDA r : r.age))

\* The row is one the sample selection is to retain.
IsSelected(r) ==
    /\ QGe(HouseholdMeanAge(r.yy1), Q(AgeMin))
    /\ QLe(HouseholdMeanAge(r.yy1), Q(AgeMax))
    /\ QGe(r.norminc, Q(0))

SelectedRows(h) == Filter(merged, LAMBDA r : r.yy1 = h /\ IsSelected(r))

\* liq * 1.05 + cds + nmmf + stocks + bond - ccbal
KaplanAssets(r) ==
    QSub(QAdd(QAdd(QAdd(QAdd(QMul(r.liq, Frac(105, 100)), r.cds), r.nmmf),
                   r.stocks), r.bond), r.ccbal)

\* install - veh_inst
OtherInstallment(r) == QSub(r.install, r.veh_inst)

\* C13: for every household calculate_liquid_wealth returns, liqWealth is
\* the household mean of liq * 1.05 + cds + nmmf + stocks + bond - ccbal
\* when include_installment is False, and that mean minus the household
\* mean of (install - veh_inst) when it is True; the two computed measures
\* differ by exactly the household mean of (install - veh_inst).
C13_MeasureSelection ==
    WealthReturned =>
        \A r \in Range(df) :
            LET kaplan == QMean(Column(SelectedRows(r.yy1), KaplanAssets))
                inst   == QMean(Column(SelectedRows(r.yy1), OtherInstallment))
            IN  /\ r.liqWealth = IF include_installment
                                 THEN QSub(kaplan, inst) ELSE kaplan
                /\ QSub(r.liqWealthKaplan, r.liqWealthInst) = inst

\* A household with installment debt other than vehicle loans was
\* returned with include_installment = True, carrying the lower measure.
C13_Witness ==
    /\ WealthReturned
    /\ include_installment
    /\ \E r \in Range(df) :
          /\ QLt(r.liqWealthInst, r.liqWealthKaplan)
          /\ r.liqWealth = r.liqWealthInst

\* The tier the lookup is to give for a code.
ExpectedTier(code) ==
    CASE code \in {Q(2), Q(3)} -> 2
      [] code = Q(4)           -> 3
      [] OTHER                 -> 1

\* C14: the myEd column calculate_liquid_wealth makes of a column of codes
\* holds tier 2 for the codes 2 and 3, tier 3 for code 4 and tier 1 for
\* every other code, unlisted or missing; the myEd column
\* compare_scf_datasets makes of the same codes is the same column.
C14_TierLookup ==
    /\ myEd_main # <<>> =>
          /\ Len(myEd_main) = Len(edcl_column)
          /\ \A i \in DOMAIN edcl_column :
                myEd_main[i] = ExpectedTier(edcl_column[i])
    /\ (myEd_main # <<>> /\ myEd_compare # <<>>) => myEd_compare = myEd_main

\* Both programs have tiered a column that holds a missing code, an
\* unlisted code and the code 3.
C14_Witness ==
    /\ myEd_main # <<>>
    /\ myEd_compare # <<>>
    /\ NaN \in Range(edcl_column)
    /\ Q(5) \in Range(edcl_column)
    /\ Q(3) \in Range(edcl_column)

\* The total weight of the collapsed households picked out by Test.
CollapsedWeight(Test(_)) ==
    QSum(Column(Filter(collapsed, Test), LAMBDA r : r.weight))

\* The wealth measure calculate_liquid_wealth selects for r.
SelectedMeasure(r) ==
    IF include_installment THEN r.liqWealthInst ELSE r.liqWealthKaplan

\* C15: the trimmed households are settled by permanent income and the
\* weights of all collapsed households alone: a trimmed household, with
\* all the households of lower permInc, weighs less than 5% of the total
\* weight of all collapsed households, a household kept, with all those of
\* lower or equal permInc, weighs at least 5% of it; the negative-wealth
\* filter acts on what the trimming kept.
C15_TrimmingBeforeWealth ==
    WealthReturned =>
        LET total == CollapsedWeight(LAMBDA x : TRUE)
        IN  /\ \A r \in Range(collapsed) :
                  IF r.yy1 \in trimmed
                  THEN QLt(QDiv(QAdd(CollapsedWeight(
                                       LAMBDA x : QLt(x.permInc, r.permInc)),
                                     r.weight), total),
                           Frac(5, 100))
                  ELSE QGe(QDiv(CollapsedWeight(
                                  LAMBDA x : QLe(x.permInc, r.permInc)), total),
                           Frac(5, 100))
            /\ { r.yy1 : r \in Range(df) } =
               { r.yy1 : r \in { x \in Range(collapsed) :
                                   /\ x.yy1 \notin trimmed
                                   /\ QGe(SelectedMeasure(x), Q(0)) } }

\* A household was trimmed that weighs 5% or more of the households with
\* non-negative wealth: it is below the cutoff only because a household
\* dropped later for negative wealth counts in the total.
C15_Witness ==
    /\ WealthReturned
    /\ \E r \in Range(collapsed) :
          /\ r.yy1 \in trimmed
          /\ QGe(QDiv(r.weight,
                      CollapsedWeight(LAMBDA x : QGe(SelectedMeasure(x), Q(0)))),
                 Frac(5, 100))

\* x comes before y, or is y, in the order by permInc with the household
\* id as tie-break.
IncomeThenId(x, y) ==
    \/ QLt(x.permInc, y.permInc)
    \/ x.permInc = y.permInc /\ x.yy1 <= y.yy1

\* The households the trimming removes when the rows are cumulated in the
\* order by (permInc, yy1).
TrimmedInTotalOrder ==
    { r.yy1 : r \in { x \in Range(collapsed) :
        QLt(QDiv(CollapsedWeight(LAMBDA y : IncomeThenId(y, x)),
                 CollapsedWeight(LAMBDA y : TRUE)),
            Frac(5, 100)) } }

\* C16: the sort of the income trimming orders the rows by permInc with
\* the household id as tie-break, so the households removed are those of
\* that order, however the rows with equal permInc are arranged.
C16_SortsAreTotal ==
    WealthReturned => trimmed = TrimmedInTotalOrder

\* The run has failed.
RunFailed == pc = "failed"

StageReturned == pc \in {"merged", "wealth", "done"} /\ raw # <<>>

\* C18: when a filter stage (the age and income selection, the collapse to
\* the first implicate, the solvency filter) leaves no household, the run
\* does not go on: no stage returns an empty frame to the next one.
C18_EmptyPopulationIsFatal ==
    /\ StageReturned => df # <<>>
    /\ StageReturned /\ pc # "merged" => collapsed # <<>>

\* The required inputs are rscfp2004.dta and one of ccbal_answer.dta,
\* p04i6.dta.  load_data creates ccbal_answer.dta only when p04i6.dta is
\* present, so the predicate has the same value before and after the load.
RequiredInputMissing ==
    \/ ~disk.rscfp2004.present
    \/ ~disk.ccbal_answer.present /\ ~disk.p04i6.present

ExpectedFile ==
    IF ~disk.rscfp2004.present THEN "rscfp2004.dta" ELSE "p04i6.dta"

LoadEnded == pc # "start"

\* C19: with a required input missing, load_data raises the missing-file
\* error naming the expected file and the download source, the run has no
\* data and exits with 1, and no file was written; otherwise the auxiliary
\* answers are the rows of ccbal_answer.dta or, when that file was created
\* by this run, the renamed rows of p04i6.dta.
C19_MissingInputIsReported ==
    LoadEnded =>
        IF RequiredInputMissing
        THEN /\ pc = "failed"
             /\ err = "FileNotFoundError"
             /\ message = {ExpectedFile, DownloadSource}
             /\ exit_status = <<1>>
             /\ raw = <<>> /\ ccbal_df = <<>> /\ df = <<>>
             /\ written = {}
        ELSE /\ err # "FileNotFoundError"
             /\ raw = disk.rscfp2004.rows
             /\ ccbal_df = disk.ccbal_answer.rows
             /\ IF disk.p04i6.present /\ "ccbal_answer.dta" \in written
                THEN ccbal_df = RenameColumns(disk.p04i6.rows)
                ELSE "ccbal_answer.dta" \notin written

C19_Witness ==
    /\ pc = "failed"
    /\ err = "FileNotFoundError"
    /\ disk.rscfp2004.present
    /\ disk.rscfp2004.rows # <<>>
    /\ ~disk.ccbal_answer.present
    /\ ~disk.p04i6.present
    /\ "p04i6.dta" \in message

\* Some row of the input file holds a value other than zero in field c.
HasNonZero(c) ==
    \E i \in DOMAIN adj_input.rows :
        ~IsNaN(adj_input.rows[i][c]) /\ adj_input.rows[i][c] # Q(0)

\* y is x divided by 1.1587.
Deflated(x, y) ==
    IF IsNaN(x) THEN IsNaN(y) ELSE QMul(y, Frac(11587, 10000)) = x

\* C20: adjust_inflation divides by 1.1587 every value of each field of
\* DOLLAR_VARIABLES that is present with a non-zero value, and leaves every
\* other field (all-zero dollar fields, household id, implicate id, weight,
\* age, education code), the number of rows and their order unchanged.
C20_DollarFieldsDeflated ==
    adj_pc = "done" =>
        /\ adj_output.columns = adj_input.columns
        /\ Len(adj_output.rows) = Len(adj_input.rows)
        /\ \A i \in DOMAIN adj_input.rows :
               /\ \A c \in adj_input.columns :
                      IF c \in Range(DOLLAR_VARIABLES) /\ HasNonZero(c)
                      THEN Deflated(adj_input.rows[i][c], adj_output.rows[i][c])
                      ELSE adj_output.rows[i][c] = adj_input.rows[i][c]
               /\ \A c \in {"yy1", "y1", "wgt", "age", "edcl"} :
                      adj_output.rows[i][c] = adj_input.rows[i][c]

C20_Witness ==
    /\ adj_pc = "done"
    /\ {"norminc", "ccbal"} \subseteq adj_input.columns
    /\ Len(adj_input.rows) = 2
    /\ adj_input.rows[1]["norminc"] = Q(11587)
    /\ adj_output.rows[1]["norminc"] = Q(10000)
    /\ adj_input.rows[2]["norminc"] = Q(0)
    /\ ~HasNonZero("ccbal")
    /\ adj_input.rows[1]["wgt"] = Frac(11587, 10000)
    /\ adj_output.rows[1]["wgt"] = Frac(11587, 10000)

\* C23: no stage writes to the table it receives: when merge_and_filter,
\* calculate_liquid_wealth or calculate_statistics has returned, the table
\* the caller passed has the columns and values it had before the call.
C23_StagesDoNotMutate ==
    /\ pc = "merged" => passed = raw
    /\ pc = "wealth" => passed = merge_and_filter(raw, ccbal_df)
    /\ StatisticsEnded => passed = df

\* The panel has positive weights and non-negative liquid wealth.
PanelIsRegular ==
    \A r \in Range(df) : QLt(Q(0), r.normweight) /\ QGe(r.liqWealth, Q(0))

PopulationBelowDiagonal ==
    \A r \in Range(lorenz_all) : QLe(r.sumLWall, r.sumNormW)

TierBelowDiagonal(ed) ==
    \A r \in Range(Tier(lorenz_ed, ed)) : QLe(r.sumLW, r.sumEdW)

\* C25 as claimed: every Lorenz point written for a panel with positive
\* weights and non-negative wealth lies on or below the diagonal, in the
\* population-wide table and in every tier; every readout for threshold t
\* is at most t and the readouts are non-decreasing in t.
C25_LorenzBelowDiagonal ==
    /\ (TablesWritten /\ PanelIsRegular) =>
           /\ PopulationBelowDiagonal
           /\ \A ed \in Tiers : TierBelowDiagonal(ed)
    /\ (pc = "done" /\ PanelIsRegular) =>
           \A t \in Thresholds :
              /\ QLe(results.lorenz_all[t], Q(t))
              /\ \A u \in Thresholds :
                     t < u => QLe(results.lorenz_all[t], results.lorenz_all[u])

\* C25 amended: the population-wide points lie on or below the diagonal
\* when the total weighted wealth is positive, the points of a tier when
\* the tier's weighted wealth is positive; a readout is missing (nan) when
\* no household lies strictly below its threshold or the total wealth is
\* zero, the readouts that are present are at most their threshold and
\* non-decreasing in the threshold.
C25_LorenzBelowDiagonalWherePositive ==
    /\ (TablesWritten /\ PanelIsRegular) =>
           /\ PositiveWealth(df) => PopulationBelowDiagonal
           /\ \A ed \in Tiers :
                  PositiveWealth(Tier(df, ed)) => TierBelowDiagonal(ed)
    /\ (pc = "done" /\ PanelIsRegular) =>
           \A t \in Thresholds :
              LET x == results.lorenz_all[t]
                  below == { r \in Range(lorenz_all) : QLt(r.sumNormW, Q(t)) }
              IN  /\ IsNaN(x) <=> (below = {} \/ ~PositiveWealth(df))
                  /\ ~IsNaN(x) =>
                        /\ QLe(x, Q(t))
                        /\ \A u \in Thresholds :
                               t < u => QLe(x, results.lorenz_all[u])

\* calculate_statistics returned for a panel in which every tier holds
\* wealth; a point lies strictly below the diagonal and two readouts are
\* present.
C25_Witness ==
    /\ pc = "done"
    /\ PanelIsRegular
    /\ \A ed \in Tiers : PositiveWealth(Tier(df, ed))
    /\ \E r \in Range(lorenz_all) : QLt(r.sumLWall, r.sumNormW)
    /\ \E r \in Range(lorenz_ed) : QLt(r.sumLW, r.sumEdW)
    /\ ~IsNaN(results.lorenz_all[40])
    /\ ~IsNaN(results.lorenz_all[60])

\* The medians of all three tiers were computed (lines 243-253).
MediansComputed == wtMedLWoPI # <<>>

\* The household of tier ed at which the cumulative weight reaches one
\* half, when the tier's rows come in the order s.
MedianHousehold(s) ==
    LET cumsum == CumSum(Column(s, LAMBDA r : r.edWeight))
        idx == SearchSorted(cumsum, QDiv(cumsum[Len(cumsum)], Q(2)))
    IN  IF idx <= Len(s) THEN s[idx].yy1 ELSE s[Len(s)].yy1

\* C26: the weighted median of a tier is the same for every order in
\* which the ratio sort may leave the households of equal ratio.
C26_MedianIgnoresTieOrder ==
    MediansComputed =>
        \A ed \in Tiers :
            \A s \in SortOrders(Tier(df, ed), IndLWoPI) :
                WeightedMedian(s) = wtMedLWoPI[ed]

\* The medians were computed for a panel in which two orders of a tier's
\* equal ratios put different households at the median index.
C26_Witness ==
    /\ MediansComputed
    /\ \E ed \in Tiers :
          \E s1, s2 \in SortOrders(Tier(df, ed), IndLWoPI) :
              MedianHousehold(s1) # MedianHousehold(s2)

IsTrimmed(r) == r.yy1 \in trimmed

IsRetained(r) == r.yy1 \notin trimmed

\* The share of the weight of all collapsed households that w is.
NormalizedWeight(w) == QDiv(w, CollapsedWeight(LAMBDA x : TRUE))

\* C27: the households the income trimming removes are a prefix of the
\* ascending permInc order, their normalized weight is below 0.05
\* altogether, a retained household of lowest permInc brings the
\* cumulative weight to 0.05 or more, and some household is retained
\* whenever the collapsed panel is not empty.
C27_TrimmedIsPrefix ==
    WealthReturned =>
        LET removed == CollapsedWeight(IsTrimmed)
        IN  /\ \A x, y \in Range(collapsed) :
                  IsTrimmed(x) /\ IsRetained(y) => QLe(x.permInc, y.permInc)
            /\ collapsed # <<>> =>
                  /\ QLt(NormalizedWeight(removed), Frac(5, 100))
                  /\ \E y \in Range(collapsed) :
                        /\ IsRetained(y)
                        /\ \A z \in Range(collapsed) :
                               IsRetained(z) => QLe(y.permInc, z.permInc)
                        /\ QGe(NormalizedWeight(QAdd(removed, y.weight)),
                               Frac(5, 100))

\* A household was removed and two households of different permInc were
\* retained.
C27_Witness ==
    /\ WealthReturned
    /\ trimmed # {}
    /\ \E y, z \in Range(collapsed) :
          IsRetained(y) /\ IsRetained(z) /\ QLt(y.permInc, z.permInc)

\* C28: for every panel of at least one household with positive weights
\* and non-negative wealth, calculate_statistics ends by returning: both
\* Lorenz tables hold one row per household and the results mapping is
\* returned, also when a tier is empty or has no household aged 25.
C28_StatisticsCompletes ==
    (StatisticsEnded /\ df # <<>> /\ PanelIsRegular) =>
        /\ pc = "done"
        /\ Len(lorenz_all) = Len(df)
        /\ Len(lorenz_ed) = Len(df)
        /\ results # <<>>

\* reproduce_all_results has got to the compilation of the documents.
ReachedCompilation ==
    \/ rep_pc = "documents"
    \/ docs_returncode # <<>>
    \/ "All reproduction steps completed!" \in rep_output

\* C30: outside dry-run mode, whatever is answered at the prompts, the
\* documents are compiled and the completion message is printed only
\* after reproduce_computed.sh was run and ended with exit status 0.
C30_CompilationAfterComputation ==
    (~dry_run /\ ReachedCompilation) => comp_returncode = <<0>>

---------------------------------------------------------------------------
\* Stashing the tables around a minimal run

\* The tables of the list that existed when 'backup' ran.
ExistedAtBackup ==
    {tables[i] : i \in {j \in 1..Len(tables) : fs_before[tables[j]] # Absent}}

\* C24: after backup, regeneration, rename_min and restore, every listed
\* table that existed at backup time has its content from before the backup,
\* its regenerated content is under the name with the _min suffix, and it
\* has no .backup file.
C24_StashRoundTrip ==
    st_pc = "restored" =>
        \A t \in ExistedAtBackup :
            /\ fs[t] = fs_before[t]
            /\ fs[MinPath(t)] = MinContent(t)
            /\ fs[BackupPath(t)] = Absent

---------------------------------------------------------------------------
\* Comparing an adjusted data set with its reference

\* The file given to adjust_inflation is GIT_FILE in later-year dollars.
CandidateIsRescaled == adj_input.rows = Rescaled(cmp_git)

\* main of compare_scf_datasets.py has printed the comparison.
Compared == cmp_pc = "done"

\* C22: when the candidate is the reference with every dollar field times
\* the inflation factor, the comparison of the adjusted candidate with the
\* reference shows a percent difference of zero (hence below 0.1) on every
\* dollar statistic, the same numbers of observations and households, and
\* the same non-dollar statistics.
C22_RoundTrip ==
    (Compared /\ CandidateIsRescaled) =>
        /\ \A i \in DOMAIN dollar_metrics :
               LET d == pct_diff(results_latest[dollar_metrics[i]],
                                 results_git[dollar_metrics[i]])
               IN  d = Q(0) /\ QLt(d, GoodDollar)
        /\ max_dollar_diff = Q(0)
        /\ results_latest.n_observations = results_git.n_observations
        /\ results_latest.n_households = results_git.n_households
        /\ \A i \in DOMAIN non_dollar_metrics :
               results_latest[non_dollar_metrics[i]]
                   = results_git[non_dollar_metrics[i]]

\* A rescaled candidate that differs from the reference was adjusted and
\* compared, over at least two households with non-zero statistics.
C22_Witness ==
    /\ Compared
    /\ CandidateIsRescaled
    /\ adj_input.rows # cmp_git
    /\ adj_output.rows # adj_input.rows
    /\ results_git.n_households >= 2
    /\ ~IsZero(results_git.median_income)
    /\ ~IsZero(results_git.median_liq_wealth)
    /\ ~IsZero(results_git.p10_liq_wealth)

---------------------------------------------------------------------------
\* The verdict and the percent differences

\* |candidate - reference| / |reference| * 100, and 0 for a reference of 0.
ExpectedPercent(candidate, reference) ==
    IF IsZero(reference) THEN Q(0)
    ELSE QMul(QDiv(QAbs(QSub(candidate, reference)), QAbs(reference)), Hundred)

\* The percent differences of the compared statistics named in metrics.
Differences(metrics) ==
    { ExpectedPercent(results_latest[metrics[i]], results_git[metrics[i]]) :
        i \in DOMAIN metrics }

\* The largest percent difference over all compared statistics.
LargestDifference ==
    QMax(Differences(dollar_metrics) \cup Differences(non_dollar_metrics)
         \cup {Q(0)})

\* C21: the verdict is "excellent" when the largest percent difference over
\* all compared statistics is below 0.05, "acceptable" when it is below 0.1
\* and not excellent, and "flagged" otherwise; a difference of 0.1 or more
\* in any statistic, dollar or not, gives "flagged".
C21_VerdictByLargestDifference ==
    Compared =>
        verdict = IF QLt(LargestDifference, Frac(5, 100))
                  THEN "EXCELLENT MATCH"
                  ELSE IF QLt(LargestDifference, Frac(1, 10))
                  THEN "GOOD MATCH"
                  ELSE "SIGNIFICANT DIFFERENCES DETECTED"

\* The statistics of metrics whose reference value is not 0.
NonZeroReference(metrics) ==
    SelectSeq(metrics, LAMBDA m : ~IsZero(results_git[m]))

\* verify_adjustment has printed its percentages.
Verified == ver_pc = "done"

\* C29: in print_comparison and in verify_adjustment, a statistic with a
\* reference value of exactly 0 has percent difference 0 and so leaves the
\* maxima as the other statistics make them; a statistic with a non-zero
\* reference has |candidate - reference| / |reference| * 100.
C29_PercentDifference ==
    /\ Compared =>
          /\ max_dollar_diff =
                 QMax(Differences(NonZeroReference(dollar_metrics))
                      \cup {Q(0)})
          /\ max_nondollar_diff =
                 QMax(Differences(NonZeroReference(non_dollar_metrics))
                      \cup {Q(0)})
    /\ Verified =>
          \A var \in DOMAIN ver_pct :
              ver_pct[var] =
                  ExpectedPercent(first_implicate_median(adj_output, var),
                                  first_implicate_median(ver_orig, var))

=============================================================================
